---- MODULE Spec2Model ----
(***************************************************************************)
(* Model of the badge firmware's library modules.  First and largest, the  *)
(* Wi-Fi scanning helpers                                                  *)
(* (software/lib/wifi_scanner.py): scan_wifi_networks and                  *)
(* scan_wifi_by_channel running against a radio (WLAN object) whose scan   *)
(* and config calls may succeed or fail in every way the code handles.     *)
(* One action is one radio call together with the code that handles its    *)
(* outcome, or one purely local block of the code.                         *)
(* The other library modules the badge runs are modelled further down,     *)
(* each under a specification of its own: NetworkManager.connect           *)
(* (software/lib/network_manager.py), the Home Assistant bridge's run      *)
(* loop (software/lib/homeassistant.py), the configuration objects         *)
(* (software/lib/config.py) and the snake game                             *)
(* (software/lib/snake_game.py).                                           *)
(***************************************************************************)
EXTENDS Integers, Sequences, FiniteSets, TLC

VARIABLES
    pc,                     \* position in the running call
    caller,                 \* "none", "scan_wifi_networks" or "direct"
    radioChannel,           \* wlan: the radio's configured channel
    radioConfig,            \* wlan: "missing", "notcallable" or "callable"
    radioKind,              \* wlan: "flaky" or "steady" (see the radio below)
    channels,               \* scan_wifi_networks: the channels argument
    idx,                    \* scan_wifi_networks: position of the for loop
    attempt,                \* scan_wifi_networks: full scan attempt number
    attempts,               \* scan_wifi_networks: full scan failure log
    dedup,                  \* scan_wifi_networks: BSSID-keyed dict, in insertion order
    per_channel_supported,  \* scan_wifi_networks: flag
    per_channel_failures,   \* scan_wifi_networks: per-channel failure log
    channel,                \* scan_wifi_by_channel: the channel argument
    diagGiven,              \* scan_wifi_by_channel: diagnostics is not None
    diagnostics,            \* scan_wifi_by_channel: the diagnostics list
    previous,               \* scan_wifi_by_channel: saved channel (or None)
    ret,                    \* scan_wifi_by_channel: pending result / exception
    outcome,                \* what the top-level call returned or raised
    obs,                    \* observations of the run (history, not program state)
    raisedExc,              \* _is_memory_error: the exc argument
    isMemory,               \* _is_memory_error: "True" / "False" returned, "unset" before
    nm,                     \* NetworkManager: the fields of the instance
    nmCall,                 \* NetworkManager.connect: the running call and what it did
    ha,                     \* _HomeAssistantBridge: the fields of the instance
    haRun,                  \* _HomeAssistantBridge.run: position of the loop, history
    DEFAULT_CONFIG,         \* config.py: the nested dictionaries of the module's global
    configs,                \* config.py: the Config objects made so far
    game                    \* snake_game.py: the fields of the SnakeScreen

scannerVars ==
    <<pc, caller, radioChannel, radioConfig, radioKind, channels, idx, attempt, attempts,
      dedup, per_channel_supported, per_channel_failures, channel, diagGiven,
      diagnostics, previous, ret, outcome, obs>>

\* The state of a lone _is_memory_error call.
classifyVars == <<raisedExc, isMemory>>

\* The state of the other library modules.
connectVars == <<nm, nmCall>>
bridgeVars == <<ha, haRun>>
configVars == <<DEFAULT_CONFIG, configs>>
snakeVars == <<game>>
moduleVars == <<connectVars, bridgeVars, configVars, snakeVars>>

\* What the calls of each module leave alone.
outsideConnect == <<scannerVars, classifyVars, bridgeVars, configVars, snakeVars>>
outsideBridge == <<scannerVars, classifyVars, connectVars, configVars, snakeVars>>
outsideConfig == <<scannerVars, classifyVars, connectVars, bridgeVars, snakeVars>>
outsideSnake == <<scannerVars, classifyVars, connectVars, bridgeVars, configVars>>

\* What the scanning calls leave alone.
outsideScanner == <<classifyVars, moduleVars>>

vars == <<scannerVars, classifyVars, moduleVars>>

netVars == <<channels, idx, attempt, attempts, dedup, per_channel_supported,
             per_channel_failures>>

(***************************************************************************)
(* Bounds of the model.                                                    *)
(***************************************************************************)
MaxChannels == 2            \* longest channels argument
MaxScanLen == 2             \* most records one scan call of a steady radio returns
MaxTwiceChannels == 1       \* longest channels argument of two calls in a row
TimeoutPolls == 2           \* polls of 100 ms that fit in connect's timeout
WifiPolls == 2              \* polls of 250 ms of the bridge's WiFi wait (40 in the code)
MaxConfigs == 2             \* most Config objects made in one run
OLED_WIDTH == 24            \* width of the display of the snake game, in pixels
OLED_HEIGHT == 16           \* its height
HUD_H == 8                  \* height of the font of the game's top row

ChannelOrder == <<1, 6, 11, 14>>
StartChannels == {0, 1}
RSSIs == {-70, -35}

(***************************************************************************)
(* Python values.                                                          *)
(***************************************************************************)
None == -1                  \* None where a channel number is expected
Sentinel == -2              \* the sentinel object of _set_channel_via_config
NoErrno == 0                \* exc.errno is None / absent
ENOMEM == 12
EIO == 5

Exc(cls, errno, text) == [cls |-> cls, errno |-> errno, text |-> text]
NoExc == Exc("", NoErrno, "")

MemoryErr == Exc("MemoryError", NoErrno, "")
EnomemErr == Exc("OSError", ENOMEM, "wifi out of memory")
EioErr == Exc("OSError", EIO, "wifi internal error")
TypeErr == Exc("TypeError", NoErrno, "unsupported config invocation")

\* The characters of the message texts the radio's errors carry.
Chars(text) ==
    CASE text = "wifi out of memory" ->
            <<"w","i","f","i"," ","o","u","t"," ","o","f"," ","m","e","m","o","r","y">>
      [] text = "wifi internal error" ->
            <<"w","i","f","i"," ","i","n","t","e","r","n","a","l"," ","e","r","r","o","r">>
      [] text = "unsupported config invocation" ->
            <<"u","n","s","u","p","p","o","r","t","e","d"," ","c","o","n","f","i","g"," ",
              "i","n","v","o","c","a","t","i","o","n">>
      [] text = "ENOMEM" -> <<"E","N","O","M","E","M">>
      [] text = "Out Of Memory" ->
            <<"O","u","t"," ","O","f"," ","M","e","m","o","r","y">>
      [] text = "WIFI OUT OF MEMORY" ->
            <<"W","I","F","I"," ","O","U","T"," ","O","F"," ","M","E","M","O","R","Y">>
      [] text = "EnoMem raised" ->
            <<"E","n","o","M","e","m"," ","r","a","i","s","e","d">>
      [] text = "out of memo" -> <<"o","u","t"," ","o","f"," ","m","e","m","o">>
      [] text = "no memory" -> <<"n","o"," ","m","e","m","o","r","y">>
      [] OTHER -> <<>>

LowerChar(c) ==
    CASE c = "E" -> "e" [] c = "N" -> "n" [] c = "O" -> "o" [] c = "M" -> "m"
      [] c = "W" -> "w" [] c = "I" -> "i" [] c = "F" -> "f" [] c = "U" -> "u"
      [] c = "T" -> "t" [] c = "R" -> "r" [] c = "Y" -> "y"
      [] OTHER -> c

\* Faulty variant: the text is compared as it is, without .lower().
LowerKeepsCase(cs) == cs

Lower(cs) == [i \in 1..Len(cs) |-> LowerChar(cs[i])]

Contains(cs, sub) ==
    \E i \in 0..(Len(cs) - Len(sub)) : SubSeq(cs, i + 1, i + Len(sub)) = sub

OutOfMemoryChars == <<"o","u","t"," ","o","f"," ","m","e","m","o","r","y">>
EnomemChars == <<"e","n","o","m","e","m">>

KnownEnomem == {ENOMEM, 12}

_format_exception(exc) ==
    IF exc.cls = "OSError"
    THEN LET parts == (IF exc.errno # NoErrno
                       THEN <<"errno=" \o ToString(exc.errno)>> ELSE <<>>)
                      \o (IF exc.errno # NoErrno /\ exc.text # ""
                          THEN <<exc.text>> ELSE <<>>)
             parts2 == IF parts = <<>> /\ exc.text # "" THEN <<exc.text>> ELSE parts
             detail == IF parts2 = <<>> THEN exc.cls
                       ELSE IF Len(parts2) = 1 THEN parts2[1]
                       ELSE parts2[1] \o ", " \o parts2[2]
         IN  exc.cls \o "(" \o detail \o ")"
    ELSE IF exc.text # "" THEN exc.cls \o "(" \o exc.text \o ")" ELSE exc.cls

_is_memory_error(exc) ==
    \/ exc.cls = "MemoryError"
    \/ /\ exc.cls = "OSError"
       /\ \/ exc.errno \in KnownEnomem
          \/ Contains(Lower(Chars(exc.text)), OutOfMemoryChars)
          \/ Contains(Lower(Chars(exc.text)), EnomemChars)

RECURSIVE JoinSemi(_)
JoinSemi(strs) ==
    IF strs = <<>> THEN ""
    ELSE IF Len(strs) = 1 THEN strs[1]
    ELSE strs[1] \o "; " \o JoinSemi(Tail(strs))


(***************************************************************************)
(* The radio: what its calls can answer.  A flaky radio may refuse any     *)
(* config call in any way and hears at most one network per scan; a steady *)
(* radio accepts every config call in keyword form and hears up to         *)
(* MaxScanLen records per scan.  Either radio's scan may fail.             *)
(***************************************************************************)
\* A network record is the tuple (ssid, bssid, channel, rssi, authmode); a
\* malformed record has fewer than 4 fields.
RecordsOn(ch) ==
    {<<"ssid", "01", ch, r, 0>> : r \in RSSIs}
        \cup {<<"ssid", "02", ch, -70, 0>>, <<"ssid", "01">>}

SeqsUpTo(S, n) == UNION {[1..k -> S] : k \in 0..n}

ScanLists(ch) ==
    IF radioKind = "steady" THEN SeqsUpTo(RecordsOn(ch), MaxScanLen)
    ELSE {<<>>, <<<<"ssid", "01", ch, -70, 0>>>>}

ScanErrors == {MemoryErr, EnomemErr, EioErr}
ConfigErrors == {EioErr, MemoryErr}

ScanOutcomes(ch) ==
    [ok : {TRUE}, records : ScanLists(ch), exc : {NoExc}]
        \cup [ok : {FALSE}, records : {<<>>}, exc : ScanErrors]

Accepted == [ok |-> TRUE, exc |-> NoExc]

\* config("channel"): the channel, None, or an error.
ReadOutcomes ==
    IF radioKind = "steady"
    THEN {[ok |-> TRUE, value |-> radioChannel, exc |-> NoExc]}
    ELSE [ok : {TRUE}, value : {radioChannel, None}, exc : {NoExc}]
             \cup [ok : {FALSE}, value : {None}, exc : ConfigErrors]

\* config(channel=c): accepted, or refused with TypeError or another error.
KeywordSetOutcomes ==
    IF radioKind = "steady" THEN {Accepted}
    ELSE {Accepted} \cup [ok : {FALSE}, exc : {TypeErr} \cup ConfigErrors]

\* config("channel", c): accepted or refused.
PositionalSetOutcomes ==
    {Accepted} \cup [ok : {FALSE}, exc : {TypeErr, EioErr, MemoryErr}]

(***************************************************************************)
(* Values of the running call.                                             *)
(***************************************************************************)
NoRet == [kind |-> "pending", value |-> <<>>, exc |-> NoExc]
RetList(v) == [kind |-> "list", value |-> v, exc |-> NoExc]
RetNone == [kind |-> "none", value |-> <<>>, exc |-> NoExc]
RetRaise(e) == [kind |-> "raise", value |-> <<>>, exc |-> e]

NoOutcome == [kind |-> "running", value |-> <<>>, exc |-> NoExc, message |-> ""]
Returned(v) == [kind |-> "return", value |-> v, exc |-> NoExc, message |-> ""]
ReturnedNone == [kind |-> "return_none", value |-> <<>>, exc |-> NoExc, message |-> ""]
Raised(e) == [kind |-> "raise", value |-> <<>>, exc |-> e, message |-> ""]
RaisedRuntime(m) ==
    [kind |-> "raise", value |-> <<>>, exc |-> Exc("RuntimeError", NoErrno, ""),
     message |-> m]

\* diagnostics.append(s) under "if diagnostics is not None"
DiagAppend(s) == IF diagGiven THEN Append(diagnostics, s) ELSE diagnostics

AggregatePrefix == "Wi-Fi scan failed after attempting per-channel fallback: "

\* Faulty variant: a single full scan attempt.
FullScanAttemptsOnce == <<1>>

\* Faulty variant: the first attempt is made twice before the last one.
FullScanAttemptsThrice == <<1, 1, 2>>

\* Line 152: for attempt in (1, 2).
FullScanAttempts == <<1, 2>>

InitObs ==
    [startChannel |-> radioChannel, chanBefore |-> radioChannel,
     fullScans |-> 0, chanScans |-> 0, gcCalls |-> 0,
     lastScan |-> [ok |-> TRUE, records |-> <<>>, exc |-> NoExc],
     fullKinds |-> <<>>, log |-> <<>>, yielded |-> FALSE,
     tried |-> <<>>, results |-> <<>>,
     configCalls |-> FALSE, diagBefore |-> 0, memAt |-> {}, reads |-> 0, sets |-> 0, restores |-> 0,
     switched |-> FALSE, scanAt |-> None, scanKind |-> "none",
     chanScan |-> [ok |-> TRUE, records |-> <<>>, exc |-> NoExc],
     restoreFailed |-> FALSE, restoreExc |-> NoExc, anyRestoreFailed |-> FALSE,
     blind |-> FALSE, anyBlind |-> FALSE,
     seen |-> {}, calls |-> <<>>, readValue |-> None, discarded |-> FALSE,
     mode |-> "single", tape |-> <<>>, first |-> NoOutcome]

ScannerInit ==
    /\ pc = "idle"
    /\ caller = "none"
    /\ radioChannel \in StartChannels
    /\ radioConfig \in {"missing", "notcallable", "callable"}
    /\ radioKind \in {"flaky", "steady"}
    /\ channels = <<>>
    /\ idx = 1
    /\ attempt = 1
    /\ attempts = <<>>
    /\ dedup = <<>>
    /\ per_channel_supported = FALSE
    /\ per_channel_failures = <<>>
    /\ channel = None
    /\ diagGiven = FALSE
    /\ diagnostics = <<>>
    /\ previous = Sentinel
    /\ ret = NoRet
    /\ outcome = NoOutcome

(***************************************************************************)
(* The other library modules before any of their calls.                    *)
(***************************************************************************)
\* network_manager.py, lines 13-25.
MAX_CONNECT_RETRIES == 3
RECONNECT_WAIT_BASE == 500
WIFI_OK == 0
WIFI_ERR_CONFIG == 1
WIFI_ERR_NOT_FOUND == 2
WIFI_ERR_AUTH_FAIL == 3
WIFI_ERR_CONNECT_FAIL == 4

\* No connect call is running; the history of the last call is empty.
NoConnectCall ==
    [pc |-> "idle", polls |-> 0, attempts |-> 0, waits |-> <<>>,
     seen |-> {}, result |-> "none", lastWait |-> FALSE]

\* NetworkManager.__init__, lines 33-37.
NmInit ==
    /\ nm = [_wlan |-> FALSE, _active |-> FALSE, _last_error |-> WIFI_OK,
             _connect_retries |-> 0]
    /\ nmCall = NoConnectCall

\* _HomeAssistantBridge.__init__, lines 93-99; run has not been scheduled.
HaInit ==
    /\ ha = [_client |-> FALSE, _connected |-> FALSE, _state_dirty |-> TRUE,
             _config_dirty |-> TRUE, _availability_sent |-> FALSE]
    /\ haRun = [pc |-> "start", polls |-> 0, asked |-> "never",
                pending |-> FALSE, published |-> FALSE]

\* config.py, lines 10-31: the value of DEFAULT_CONFIG when the module has
\* been imported.  Every value is written as JSON text.
OriginalDefaults ==
    [wifi |-> [ssid |-> "", password |-> "", url |-> "", url_qr |-> ""],
     homeassistant |-> [enabled |-> "false", broker |-> "", port |-> "1883",
                        username |-> "", password |-> "",
                        device_name |-> "BSides Badge",
                        discovery_prefix |-> "homeassistant"],
     badge |-> [auto_connect |-> "false", scan_on_startup |-> "false",
                debug |-> "false"]]

\* The module has been imported; _config_instance is None (line 139).
ConfigModuleInit ==
    /\ DEFAULT_CONFIG = OriginalDefaults
    /\ configs = <<>>

\* snake_game.py, lines 23-24 and 31-32.
CELL == 4
DIRS == <<<<1, 0>>, <<0, 1>>, <<-1, 0>>, <<0, -1>>>>
GRID_W == OLED_WIDTH \div CELL
GRID_H == (OLED_HEIGHT - HUD_H) \div CELL

\* Lines 55-57: the snake of a new game.
InitialSnake ==
    LET cx == GRID_W \div 2
        cy == GRID_H \div 2
    IN  <<<<cx, cy>>, <<cx - 1, cy>>, <<cx - 2, cy>>, <<cx - 3, cy>>>>

Cells(body) == {body[i] : i \in 1..Len(body)}

\* _rand_empty_cell, lines 69-79: what it may return.
RandEmptyCell(body) ==
    LET free == ((0..(GRID_W - 1)) \X (0..(GRID_H - 1))) \ Cells(body)
    IN  IF free = {} THEN {<<0, 0>>} ELSE free

\* __init__, lines 41-59, with the high score read at line 50.
NewGame(high, food) ==
    [running |-> TRUE, paused |-> FALSE, tick_ms |-> 180, score |-> 0,
     high_score |-> high, dir_idx |-> 0, snake |-> InitialSnake,
     food |-> food, game_over |-> FALSE]

\* No SnakeScreen is open: none was made yet, or BACK has left it for the
\* menu (lines 245-251) and the object is dropped.  The high score is the
\* one stored in snake_high_score.
Closed(high) == [NewGame(high, <<0, 0>>) EXCEPT !.running = FALSE]

SnakeIdle == game = Closed(0)

ModulesIdle == NmInit /\ HaInit /\ ConfigModuleInit /\ SnakeIdle

Init ==
    /\ ScannerInit
    /\ obs = InitObs
    /\ raisedExc = NoExc
    /\ isMemory = "unset"
    /\ ModulesIdle


(***************************************************************************)
(* The BSSID merge of scan_wifi_networks (lines 189-195); the dict is a    *)
(* sequence of its values in insertion order, keyed by field 2 (entry[1]). *)
(***************************************************************************)
\* Faulty variant: the comparison of line 194 is inverted.
ReplacesWeaker(entry, existing) == entry[4] < existing[4]

\* Faulty variant: a record of equal strength replaces the existing one.
ReplacesOnTie(entry, existing) == entry[4] >= existing[4]

\* Line 194: entry[3] > existing[3].
Replaces(entry, existing) == entry[4] > existing[4]

KeyIndex(d, bssid) ==
    IF \E i \in 1..Len(d) : d[i][2] = bssid
    THEN CHOOSE i \in 1..Len(d) : d[i][2] = bssid
    ELSE 0

MergeEntry(d, entry) ==
    IF Len(entry) < 4 THEN d
    ELSE LET i == KeyIndex(d, entry[2])
         IN  IF i = 0 THEN Append(d, entry)
             ELSE IF Replaces(entry, d[i]) THEN [d EXCEPT ![i] = entry]
             ELSE d

RECURSIVE MergeAll(_, _)
MergeAll(d, entries) ==
    IF entries = <<>> THEN d
    ELSE MergeAll(MergeEntry(d, Head(entries)), Tail(entries))

\* Faulty variant: the channel read before the switch is forgotten.
RestoredValueForgotten(prev) == None

RestoredValue(prev) == IF prev = Sentinel THEN None ELSE prev

ChannelLists == {SubSeq(ChannelOrder, 1, n) : n \in 0..MaxChannels}

DirectDiagnostics ==
    {[given |-> FALSE, list |-> <<>>], [given |-> TRUE, list |-> <<>>],
     [given |-> TRUE, list |-> <<"earlier entry">>]}

\* One answer of the radio as it is kept on the tape of a first call: which
\* call it answered, whether it succeeded, the error, and the records (scan)
\* or whether a channel number came back (read).
Entry(what, o) ==
    <<what, o.ok, o.exc,
      IF what = "scan" THEN o.records
      ELSE IF what = "read" /\ o.ok /\ o.value # None THEN <<"channel">>
      ELSE <<>>>>

\* The answers the radio may give to the call `what`: any of S, and in the
\* second of two calls exactly what it answered at this point of the first.
Answers(what, S) ==
    IF obs.mode = "replay"
    THEN {o \in S : /\ obs.tape # <<>>
                    /\ Head(obs.tape)[1] = what
                    /\ Head(obs.tape) = Entry(what, o)}
    ELSE S

Heard(tape, what, o) ==
    IF obs.mode = "record" THEN Append(tape, Entry(what, o))
    ELSE IF obs.mode = "replay" THEN Tail(tape)
    ELSE tape

\* The config call `what` failed with a memory error.
MemoryAt(what, o) == IF ~o.ok /\ _is_memory_error(o.exc) THEN {what} ELSE {}

\* The observations kept for one scan_wifi_by_channel call, cleared.
\* One call made on the radio during the current scan_wifi_by_channel call:
\* which call, how the radio answered, and the channel the radio was on.
RadioCall(what, o) ==
    [what |-> what, ok |-> o.ok, exc |-> o.exc, at |-> radioChannel]

ClearCallObs(o) ==
    [o EXCEPT !.chanBefore = radioChannel, !.diagBefore = 0, !.memAt = {},
              !.reads = 0, !.sets = 0, !.restores = 0,
              !.switched = FALSE, !.scanAt = None, !.scanKind = "none",
              !.chanScan = [ok |-> TRUE, records |-> <<>>, exc |-> NoExc],
              !.restoreFailed = FALSE, !.restoreExc = NoExc, !.blind = FALSE,
              !.calls = <<>>, !.readValue = None]

(***************************************************************************)
(* scan_wifi_networks, lines 148-163: the call and the full scan attempts. *)
(***************************************************************************)
\* Faulty variant: the object is made once (a module-level object or a
\* default argument) and lives on from call to call.
NewListShared(old) == old

\* attempts = [] (line 151), dedup = {} (165), per_channel_failures = [] (167):
\* a new empty object, whatever the name was bound to before.
NewList(old) == <<>>

\* scan_wifi_networks is called with one of the channel lists.
StartCall(lists) ==
    /\ pc = "idle"
    /\ \E chs \in lists : channels' = chs
    /\ caller' = "scan_wifi_networks"
    /\ pc' = "full_scan"
    /\ attempt' = 1
    /\ attempts' = NewList(attempts)
    /\ obs' = [obs EXCEPT !.startChannel = radioChannel]
    /\ UNCHANGED <<radioChannel, radioConfig, radioKind, idx, dedup, per_channel_supported,
                   per_channel_failures, channel, diagGiven, diagnostics, previous,
                   ret, outcome>>
    /\ UNCHANGED outsideScanner

Call_scan_wifi_networks == StartCall(ChannelLists)

\* Faulty variant: a successful attempt does not return, the channels are swept anyway.
FullScanStepNoReturn(ok, mem, n) ==
    IF ok THEN "break"
    ELSE IF mem THEN (IF n = 1 THEN "continue" ELSE "break")
    ELSE "raise"

\* Faulty variant: every failure is handled like a memory failure.
FullScanStepSwallows(ok, mem, n) ==
    IF ok THEN "return"
    ELSE IF n = 1 THEN "continue" ELSE "break"

\* Faulty variant: only the first attempt's memory failure is caught.
FullScanStepRaisesSecond(ok, mem, n) ==
    IF ok THEN "return"
    ELSE IF mem /\ n = 1 THEN "continue"
    ELSE "raise"

\* Faulty variant: every memory failure collects garbage and continues.
FullScanStepAlwaysCollects(ok, mem, n) ==
    IF ok THEN "return"
    ELSE IF mem THEN "continue"
    ELSE "raise"

\* Faulty variant: the first memory failure already ends the full scans.
FullScanStepBreaksFirst(ok, mem, n) ==
    IF ok THEN "return"
    ELSE IF mem THEN "break"
    ELSE "raise"

\* What the try/except of lines 153-162 does with one attempt's outcome.
FullScanStep(ok, mem, n) ==
    IF ok THEN "return"
    ELSE IF mem THEN (IF n = 1 THEN "continue" ELSE "break")
    ELSE "raise"

FullScan ==
    /\ pc = "full_scan"
    /\ \E o \in Answers("scan", ScanOutcomes(radioChannel)) :
         LET n == FullScanAttempts[attempt]
             mem == ~o.ok /\ _is_memory_error(o.exc)
             kind == IF o.ok THEN "ok" ELSE IF mem THEN "memory" ELSE "other"
             step == FullScanStep(o.ok, mem, n)
             entry == "full scan attempt " \o ToString(n) \o ": "
                          \o _format_exception(o.exc)
             again == step = "continue" /\ attempt < Len(FullScanAttempts)
             fallback == ~again /\ step \in {"continue", "break"}
         IN  /\ obs' = [obs EXCEPT !.fullScans = @ + 1, !.lastScan = o,
                                   !.tape = Heard(@, "scan", o),
                                   !.fullKinds = Append(@, kind),
                                   !.gcCalls = IF step = "continue" THEN @ + 1 ELSE @,
                                   !.log = IF mem THEN Append(@, entry) ELSE @]
             /\ attempts' = IF mem THEN Append(attempts, entry) ELSE attempts
             /\ attempt' = IF again THEN attempt + 1 ELSE attempt
             /\ pc' = IF again THEN "full_scan"
                      ELSE IF step \in {"continue", "break"} THEN "loop"
                      ELSE "done"
             /\ outcome' = IF step = "return" THEN Returned(o.records)
                           ELSE IF step = "raise" THEN Raised(o.exc)
                           ELSE outcome
             /\ dedup' = IF fallback THEN NewList(dedup) ELSE dedup
             /\ per_channel_supported' =
                    IF fallback THEN FALSE ELSE per_channel_supported
             /\ per_channel_failures' =
                    IF fallback THEN NewList(per_channel_failures)
                    ELSE per_channel_failures
             /\ idx' = IF fallback THEN 1 ELSE idx
    /\ UNCHANGED <<caller, radioChannel, radioConfig, radioKind, channels, channel,
                   diagGiven, diagnostics, previous, ret>>
    /\ UNCHANGED outsideScanner

(***************************************************************************)
(* scan_wifi_networks, lines 169-172: the head of the per-channel loop.    *)
(***************************************************************************)
LoopHead ==
    /\ pc = "loop"
    /\ IF idx > Len(channels)
       THEN /\ pc' = "verdict"
            /\ UNCHANGED <<idx, channel, diagGiven, diagnostics, previous, ret, obs>>
       ELSE /\ pc' = "by_channel"
            /\ channel' = channels[idx]
            /\ idx' = idx + 1
            /\ diagGiven' = TRUE
            /\ diagnostics' = <<>>
            /\ previous' = Sentinel
            /\ ret' = NoRet
            /\ obs' = ClearCallObs([obs EXCEPT !.tried = Append(@, channels[idx])])
    /\ UNCHANGED <<caller, radioChannel, radioConfig, radioKind, channels, attempt, attempts,
                   dedup, per_channel_supported, per_channel_failures, outcome>>
    /\ UNCHANGED outsideScanner

(***************************************************************************)
(* scan_wifi_by_channel called by other code (lines 117-125).              *)
(***************************************************************************)
Call_scan_wifi_by_channel ==
    /\ pc = "idle"
    /\ \E c \in {ChannelOrder[i] : i \in 1..MaxChannels}, d \in DirectDiagnostics :
         /\ channel' = c
         /\ diagGiven' = d.given
         /\ diagnostics' = d.list
         /\ obs' = [ClearCallObs([obs EXCEPT !.startChannel = radioChannel])
                       EXCEPT !.diagBefore = Len(d.list)]
    /\ caller' = "direct"
    /\ pc' = "by_channel"
    /\ previous' = Sentinel
    /\ ret' = NoRet
    /\ UNCHANGED <<radioChannel, radioConfig, radioKind, netVars, outcome>>
    /\ UNCHANGED outsideScanner

(***************************************************************************)
(* _set_channel_via_config, lines 58-95.                                   *)
(***************************************************************************)
CheckConfig ==
    /\ pc = "by_channel"
    /\ IF radioConfig = "missing"
       THEN /\ diagnostics' = DiagAppend("WLAN.config attribute missing")
            /\ ret' = RetNone
            /\ pc' = "returned"
       ELSE IF radioConfig = "notcallable"
       THEN /\ diagnostics' = DiagAppend("WLAN.config is not callable")
            /\ ret' = RetNone
            /\ pc' = "returned"
       ELSE /\ pc' = "read"
            /\ UNCHANGED <<diagnostics, ret>>
    /\ UNCHANGED <<caller, radioChannel, radioConfig, radioKind, netVars, channel, diagGiven,
                   previous, outcome, obs>>
    /\ UNCHANGED outsideScanner

ReadChannel ==
    /\ pc = "read"
    /\ \E o \in Answers("read", ReadOutcomes) :
         /\ previous' = IF o.ok THEN o.value ELSE previous
         /\ diagnostics' = IF o.ok THEN diagnostics
                           ELSE DiagAppend("reading current channel failed: "
                                           \o _format_exception(o.exc))
         /\ obs' = [obs EXCEPT !.reads = @ + 1, !.configCalls = TRUE,
                               !.tape = Heard(@, "read", o),
                               !.calls = Append(@, RadioCall("read", o)),
                               !.readValue = IF o.ok THEN o.value ELSE None,
                               !.memAt = @ \cup MemoryAt("read", o)]
    /\ pc' = "set_kw"
    /\ UNCHANGED <<caller, radioChannel, radioConfig, radioKind, netVars, channel, diagGiven,
                   ret, outcome>>
    /\ UNCHANGED outsideScanner

\* The set took effect: lines 94-95, and the radio is on the channel.
SetAccepted ==
    /\ radioChannel' = channel
    /\ previous' = RestoredValue(previous)
    /\ pc' = "scan"
    /\ UNCHANGED <<diagnostics, ret>>

\* Faulty variant: the refused set leaves no diagnostic.
SetRefusedSilently(text) ==
    /\ diagnostics' = diagnostics
    /\ previous' = None
    /\ ret' = RetNone
    /\ pc' = "returned"
    /\ UNCHANGED radioChannel

\* Faulty variant: the scan goes ahead although the set was refused.
SetRefusedScans(text) ==
    /\ diagnostics' = DiagAppend(text)
    /\ previous' = RestoredValue(previous)
    /\ pc' = "scan"
    /\ UNCHANGED <<radioChannel, ret>>

\* Faulty variant: a refused set is raised to the caller instead of being
\* reported as an unsupported channel.
SetRefusedRaised(text) ==
    /\ diagnostics' = DiagAppend(text)
    /\ previous' = None
    /\ ret' = RetRaise([cls |-> "OSError", errno |-> NoErrno, text |-> text])
    /\ pc' = "returned"
    /\ UNCHANGED radioChannel

\* return False, None after the diagnostic
SetRefused(text) ==
    /\ diagnostics' = DiagAppend(text)
    /\ previous' = None
    /\ ret' = RetNone
    /\ pc' = "returned"
    /\ UNCHANGED radioChannel

\* Faulty variant: any failure of the keyword form leads to the positional form.
TriesPositionalAlways(exc) == TRUE

\* except TypeError: only the wrong call shape leads to the positional form
TriesPositional(exc) == exc.cls = "TypeError"

SetKeyword ==
    /\ pc = "set_kw"
    /\ \E o \in Answers("set", KeywordSetOutcomes) :
         /\ IF o.ok THEN SetAccepted
            ELSE IF TriesPositional(o.exc)
            THEN /\ pc' = "set_pos"
                 /\ UNCHANGED <<radioChannel, previous, diagnostics, ret>>
            ELSE SetRefused("setting channel failed: " \o _format_exception(o.exc))
         /\ obs' = [obs EXCEPT !.sets = @ + 1, !.configCalls = TRUE,
                               !.tape = Heard(@, "set", o),
                               !.calls = Append(@, RadioCall("set_kw", o)),
                               !.memAt = @ \cup MemoryAt("set", o),
                               !.switched = o.ok,
                               !.blind = o.ok /\ previous \in {Sentinel, None},
                               !.anyBlind = @ \/ (o.ok /\ previous \in {Sentinel, None})]
    /\ UNCHANGED <<caller, radioConfig, radioKind, netVars, channel, diagGiven, outcome>>
    /\ UNCHANGED outsideScanner

SetPositional ==
    /\ pc = "set_pos"
    /\ \E o \in Answers("set", PositionalSetOutcomes) :
         /\ IF o.ok THEN SetAccepted
            ELSE SetRefused("setting channel via positional arguments failed: "
                            \o _format_exception(o.exc))
         /\ obs' = [obs EXCEPT !.sets = @ + 1, !.configCalls = TRUE,
                               !.tape = Heard(@, "set", o),
                               !.calls = Append(@, RadioCall("set_pos", o)),
                               !.memAt = @ \cup MemoryAt("set", o),
                               !.switched = o.ok,
                               !.blind = o.ok /\ previous \in {Sentinel, None},
                               !.anyBlind = @ \/ (o.ok /\ previous \in {Sentinel, None})]
    /\ UNCHANGED <<caller, radioConfig, radioKind, netVars, channel, diagGiven, outcome>>
    /\ UNCHANGED outsideScanner


(***************************************************************************)
(* scan_wifi_by_channel, lines 129-141: the scan on the switched channel.  *)
(***************************************************************************)
\* Faulty variant: the records of a successful scan are not handed back.
ByChannelResultDropsRecords(ok, mem, records, exc) ==
    IF ok \/ mem THEN RetList(<<>>) ELSE RetRaise(exc)

\* Faulty variant: a memory failure of the channel's scan is raised like any other.
ByChannelResultRaisesMemory(ok, mem, records, exc) ==
    IF ok THEN RetList(records) ELSE RetRaise(exc)

\* The try/except of lines 129-141: the result the call will give.
ByChannelResult(ok, mem, records, exc) ==
    IF ok THEN RetList(records)
    ELSE IF mem THEN RetList(<<>>)
    ELSE RetRaise(exc)

\* Faulty variant: the restore sits after the try block, so a raising scan skips it.
AfterScanNoFinally(kind) == IF kind = "raise" THEN "returned" ELSE "restore"

\* The finally clause (lines 142-143) runs _restore_channel on every path.
AfterScan(kind) == "restore"

ChannelScan ==
    /\ pc = "scan"
    /\ \E o \in Answers("scan", ScanOutcomes(radioChannel)) :
         LET mem == ~o.ok /\ _is_memory_error(o.exc)
             r == ByChannelResult(o.ok, mem, o.records, o.exc)
         IN  /\ ret' = r
             /\ diagnostics' =
                    IF o.ok THEN diagnostics
                    ELSE IF mem
                    THEN DiagAppend("scan on channel " \o ToString(channel)
                                    \o " exhausted memory: " \o _format_exception(o.exc))
                    ELSE DiagAppend("scan on channel " \o ToString(channel)
                                    \o " failed: " \o _format_exception(o.exc))
             /\ obs' = [obs EXCEPT !.chanScans = @ + 1, !.scanAt = radioChannel,
                                   !.tape = Heard(@, "scan", o),
                                   !.calls = Append(@, RadioCall("scan", o)),
                                   !.chanScan = o,
                                   !.scanKind = IF o.ok THEN "ok"
                                                ELSE IF mem THEN "memory" ELSE "other",
                                   !.yielded = @ \/ o.ok \/ mem,
                                   !.seen = IF o.ok
                                            THEN @ \cup {o.records[i] : i \in 1..Len(o.records)}
                                            ELSE @]
             /\ pc' = AfterScan(r.kind)
    /\ UNCHANGED <<caller, radioChannel, radioConfig, radioKind, netVars, channel,
                   diagGiven, previous, outcome>>
    /\ UNCHANGED outsideScanner

(***************************************************************************)
(* _restore_channel, lines 98-114, run by the finally clause (142-143).    *)
(***************************************************************************)
\* Faulty variant: the restore hands the scanned channel back to the radio.
RestoreTargetScanned == channel

\* The value handed to config by lines 103 and 106.
RestoreTarget == previous

\* Faulty variant: the restore's failure is raised out of the finally clause.
RestoreFailureRaised(r, exc) == RetRaise(exc)

\* Lines 107-114: the restore's failure is caught; the pending result stays.
RestoreFailure(r, exc) == r

\* Faulty variant: the restore is issued even when no channel was read.
SkipsRestoreNever(prev) == FALSE

\* if previous is None: return
SkipsRestore(prev) == prev = None

RestoreKeyword ==
    /\ pc = "restore"
    /\ IF SkipsRestore(previous)
       THEN /\ pc' = "returned"
            /\ UNCHANGED <<radioChannel, diagnostics, ret, obs>>
       ELSE \E o \in Answers("restore", KeywordSetOutcomes) :
              /\ radioChannel' = IF o.ok THEN RestoreTarget ELSE radioChannel
              /\ ret' = IF o.ok \/ o.exc.cls = "TypeError" THEN ret
                         ELSE RestoreFailure(ret, o.exc)
              /\ pc' = IF ~o.ok /\ o.exc.cls = "TypeError" THEN "restore_pos"
                       ELSE "returned"
              /\ diagnostics' =
                     IF o.ok \/ o.exc.cls = "TypeError" THEN diagnostics
                     ELSE DiagAppend("restoring channel failed: "
                                     \o _format_exception(o.exc))
              /\ obs' = [obs EXCEPT
                             !.restores = @ + 1, !.configCalls = TRUE,
                             !.tape = Heard(@, "restore", o),
                             !.calls = Append(@, RadioCall("restore_kw", o)),
                             !.memAt = @ \cup MemoryAt("restore", o),
                             !.restoreFailed = ~o.ok /\ o.exc.cls # "TypeError",
                             !.restoreExc = IF ~o.ok /\ o.exc.cls # "TypeError"
                                            THEN o.exc ELSE NoExc,
                             !.anyRestoreFailed =
                                 @ \/ (~o.ok /\ o.exc.cls # "TypeError")]
    /\ UNCHANGED <<caller, radioConfig, radioKind, netVars, channel, diagGiven, previous,
                   outcome>>
    /\ UNCHANGED outsideScanner

RestorePositional ==
    /\ pc = "restore_pos"
    /\ \E o \in Answers("restore", PositionalSetOutcomes) :
         /\ radioChannel' = IF o.ok THEN RestoreTarget ELSE radioChannel
         /\ diagnostics' =
                IF o.ok THEN diagnostics
                ELSE DiagAppend("restoring channel via positional arguments failed: "
                                \o _format_exception(o.exc))
         /\ ret' = IF o.ok THEN ret ELSE RestoreFailure(ret, o.exc)
         /\ obs' = [obs EXCEPT !.restores = @ + 1, !.configCalls = TRUE,
                               !.tape = Heard(@, "restore", o),
                               !.calls = Append(@, RadioCall("restore_pos", o)),
                               !.memAt = @ \cup MemoryAt("restore", o),
                               !.restoreFailed = ~o.ok,
                               !.restoreExc = o.exc,
                               !.anyRestoreFailed = @ \/ ~o.ok]
    /\ pc' = "returned"
    /\ UNCHANGED <<caller, radioConfig, radioKind, netVars, channel, diagGiven, previous,
                   outcome>>
    /\ UNCHANGED outsideScanner

(***************************************************************************)
(* scan_wifi_by_channel returns (line 127 or 145) or raises (line 141) to  *)
(* other code.                                                             *)
(***************************************************************************)
DirectReturn ==
    /\ pc = "returned"
    /\ caller = "direct"
    /\ outcome' = IF ret.kind = "list" THEN Returned(ret.value)
                  ELSE IF ret.kind = "none" THEN ReturnedNone
                  ELSE Raised(ret.exc)
    /\ pc' = "done"
    /\ UNCHANGED <<caller, radioChannel, radioConfig, radioKind, netVars, channel, diagGiven,
                   diagnostics, previous, ret, obs>>
    /\ UNCHANGED outsideScanner

(***************************************************************************)
(* scan_wifi_networks, lines 172-195: what the loop body does with the     *)
(* channel's result.  channel_diag, channel_results and the callee's       *)
(* locals are dead afterwards.                                             *)
(***************************************************************************)
\* Faulty variant: a channel that could not be switched is always logged with the
\* generic text, the diagnostics are ignored.
ChannelFailureGeneric ==
    IF ret.kind = "raise"
    THEN "channel " \o ToString(channel) \o ": " \o _format_exception(ret.exc)
    ELSE "channel " \o ToString(channel) \o ": channel switching unsupported"

\* Lines 173-185: the entry logged for a channel that gave no result.
ChannelFailure ==
    IF ret.kind = "raise"
    THEN "channel " \o ToString(channel) \o ": " \o _format_exception(ret.exc)
    ELSE IF diagnostics # <<>>
    THEN "channel " \o ToString(channel) \o ": " \o JoinSemi(diagnostics)
    ELSE "channel " \o ToString(channel) \o ": channel switching unsupported"

\* Faulty variant: an error raised by a channel's scan ends the sweep.
AfterChannelAborts(kind) == IF kind = "raise" THEN "verdict" ELSE "loop"

\* Lines 177 and 186 (continue) and the end of the loop body: the next channel.
AfterChannel(kind) == "loop"

\* Faulty variant: a list holding a record of fewer than 4 fields makes its
\* channel a failed one.
ChannelLoggedOnShortRecord ==
    ret.kind # "list" \/ \E i \in 1..Len(ret.value) : Len(ret.value[i]) < 4

\* Faulty variant: a channel that gathered diagnostics is logged as failed
\* even though its scan gave a list.
ChannelLoggedOnDiagnostics == ret.kind # "list" \/ diagnostics # <<>>

\* Lines 173-186: the except branch and the None branch log the channel.
ChannelLogged == ret.kind # "list"

HandleChannelResult ==
    /\ pc = "returned"
    /\ caller = "scan_wifi_networks"
    /\ IF ~ChannelLogged
       THEN /\ per_channel_supported' = TRUE
            /\ dedup' = MergeAll(dedup, ret.value)
            /\ UNCHANGED per_channel_failures
       ELSE /\ per_channel_failures' = Append(per_channel_failures, ChannelFailure)
            /\ UNCHANGED <<per_channel_supported, dedup>>
    /\ pc' = AfterChannel(ret.kind)
    /\ diagnostics' = <<>>
    /\ previous' = Sentinel
    /\ ret' = NoRet
    /\ obs' = ClearCallObs([obs EXCEPT !.log = IF ~ChannelLogged THEN @
                                               ELSE Append(@, ChannelFailure),
                                       !.results = Append(@, ret.kind),
                                       !.discarded = @ \/ (ret.kind = "list"
                                                              /\ diagnostics # <<>>)])
    /\ UNCHANGED <<caller, radioChannel, radioConfig, radioKind, channels, idx, attempt,
                   attempts, channel, diagGiven, outcome>>
    /\ UNCHANGED outsideScanner

(***************************************************************************)
(* scan_wifi_networks, lines 197-206: the verdict.                         *)
(***************************************************************************)
\* Faulty variant: the two logs are concatenated the other way round.
DetailsChannelsFirst ==
    LET details == per_channel_failures \o attempts
    IN  IF details = <<>> THEN <<"no scanning methods succeeded">> ELSE details

\* Faulty variant: the full scan failures are left out of the message.
DetailsWithoutFullScans ==
    IF per_channel_failures = <<>> THEN <<"no scanning methods succeeded">>
    ELSE per_channel_failures

\* Lines 200-202.
Details ==
    LET details == attempts \o per_channel_failures
    IN  IF details = <<>> THEN <<"no scanning methods succeeded">> ELSE details

\* Faulty variant: a sweep in which no channel failed returns its networks.
VerdictReturnsUnlessFailed == per_channel_supported \/ per_channel_failures = <<>>

\* Faulty variant: the verdict looks at the merged networks, not at the flag.
VerdictReturnsIfFound == dedup # <<>>

\* Line 197.
VerdictReturns == per_channel_supported

Verdict ==
    /\ pc = "verdict"
    /\ outcome' = IF VerdictReturns THEN Returned(dedup)
                  ELSE RaisedRuntime(AggregatePrefix \o JoinSemi(Details))
    /\ pc' = "done"
    /\ UNCHANGED <<caller, radioChannel, radioConfig, radioKind, netVars, channel, diagGiven,
                   diagnostics, previous, ret, obs>>
    /\ UNCHANGED outsideScanner

Next ==
    \/ Call_scan_wifi_networks
    \/ FullScan
    \/ LoopHead
    \/ Call_scan_wifi_by_channel
    \/ CheckConfig
    \/ ReadChannel
    \/ SetKeyword
    \/ SetPositional
    \/ ChannelScan
    \/ RestoreKeyword
    \/ RestorePositional
    \/ DirectReturn
    \/ HandleChannelResult
    \/ Verdict

Spec == Init /\ [][Next]_vars


(***************************************************************************)
(* Two calls of scan_wifi_networks in a row on one radio, with the same    *)
(* channels argument.  The answers the radio gives during the first call   *)
(* are kept on a tape, and in the second call the radio answers every call *)
(* as it did in the first.  The radio starts on a channel that is not in   *)
(* the list.                                                               *)
(***************************************************************************)
TwiceInit ==
    /\ ScannerInit
    /\ radioChannel = 0
    /\ obs = [InitObs EXCEPT !.mode = "record"]
    /\ raisedExc = NoExc
    /\ isMemory = "unset"
    /\ ModulesIdle

TwiceChannelLists == {SubSeq(ChannelOrder, 1, n) : n \in 0..MaxTwiceChannels}

\* The first of the two calls.
FirstCall == StartCall(TwiceChannelLists)

\* The caller has the first call's outcome and calls again (lines 148-152).
CallAgain ==
    /\ pc = "done"
    /\ caller = "scan_wifi_networks"
    /\ obs.mode = "record"
    /\ pc' = "full_scan"
    /\ attempt' = 1
    /\ attempts' = NewList(attempts)
    /\ outcome' = NoOutcome
    /\ obs' = [InitObs EXCEPT !.mode = "replay", !.tape = obs.tape,
                              !.first = outcome]
    /\ UNCHANGED <<caller, radioChannel, radioConfig, radioKind, channels, idx, dedup,
                   per_channel_supported, per_channel_failures, channel, diagGiven,
                   diagnostics, previous, ret>>
    /\ UNCHANGED outsideScanner

TwiceNext ==
    \/ FirstCall
    \/ CallAgain
    \/ FullScan
    \/ LoopHead
    \/ CheckConfig
    \/ ReadChannel
    \/ SetKeyword
    \/ SetPositional
    \/ ChannelScan
    \/ RestoreKeyword
    \/ RestorePositional
    \/ HandleChannelResult
    \/ Verdict

SpecTwice == TwiceInit /\ [][TwiceNext]_vars


(***************************************************************************)
(* _is_memory_error (lines 43-55) called on its own, on any failure a      *)
(* driver may raise.                                                       *)
(***************************************************************************)
FailureTexts ==
    {"", "wifi internal error", "wifi out of memory", "ENOMEM", "Out Of Memory",
     "WIFI OUT OF MEMORY", "EnoMem raised", "out of memo", "no memory"}

\* OSError carries an errno (or none); the other classes carry only a text.
Failures ==
    [cls : {"OSError"}, errno : {NoErrno, EIO, ENOMEM}, text : FailureTexts]
        \cup [cls : {"MemoryError", "RuntimeError", "ValueError", "TypeError", "KeyError"},
              errno : {NoErrno}, text : FailureTexts]

ClassifyInit ==
    /\ ScannerInit
    /\ obs = InitObs
    /\ radioChannel = 0
    /\ radioConfig = "callable"
    /\ radioKind = "steady"
    /\ raisedExc \in Failures
    /\ isMemory = "unset"
    /\ ModulesIdle

Classify ==
    /\ isMemory = "unset"
    /\ isMemory' = IF _is_memory_error(raisedExc) THEN "True" ELSE "False"
    /\ UNCHANGED <<raisedExc, scannerVars, moduleVars>>

ClassifyNext == Classify

SpecClassify == ClassifyInit /\ [][ClassifyNext]_vars

\* The scanner and the classifier at rest, for the specifications of the
\* other modules.
ScannerIdle ==
    /\ ScannerInit
    /\ obs = InitObs
    /\ radioChannel = 0
    /\ radioConfig = "callable"
    /\ radioKind = "steady"
    /\ raisedExc = NoExc
    /\ isMemory = "unset"


(***************************************************************************)
(* NetworkManager.connect (network_manager.py, lines 158-211) against an   *)
(* interface whose constructor, active, connect and status calls may       *)
(* succeed or raise, and whose status may be any of the driver's values.   *)
(* The timeout of the polling loop is counted in polls: every poll that    *)
(* does not end the attempt sleeps 100 ms.                                 *)
(***************************************************************************)
\* The values wlan.status() may return (network.STAT_*), and a raising call.
Statuses ==
    {"STAT_GOT_IP", "STAT_CONNECTING", "STAT_WRONG_PASSWORD", "STAT_NO_AP_FOUND",
     "STAT_CONNECT_FAIL", "STAT_IDLE", "raises"}

RECURSIVE Pow2(_)
Pow2(n) == IF n = 0 THEN 1 ELSE 2 * Pow2(n - 1)

\* Line 200: wait_time = RECONNECT_WAIT_BASE * (2 ** self._connect_retries)
WaitTime(retries) == RECONNECT_WAIT_BASE * Pow2(retries)

\* The caller calls connect; lines 164-169: _ensure_active (lines 248-254,
\* with init, lines 39-77, and active, lines 79-97), then the reset.
Call_connect ==
    /\ nmCall.pc \in {"idle", "done"}
    /\ \E initOk \in BOOLEAN, activeOk \in BOOLEAN :
         IF ~nm._wlan /\ ~initOk
         THEN /\ nm' = [nm EXCEPT !._last_error = WIFI_ERR_CONFIG]
              /\ nmCall' = [NoConnectCall EXCEPT !.pc = "done", !.result = "False"]
         ELSE IF ~nm._active /\ ~activeOk
         THEN /\ nm' = [nm EXCEPT !._wlan = TRUE, !._active = FALSE]
              /\ nmCall' = [NoConnectCall EXCEPT !.pc = "done", !.result = "False"]
         ELSE /\ nm' = [nm EXCEPT !._wlan = TRUE, !._active = TRUE,
                                  !._connect_retries = 0,
                                  !._last_error = WIFI_OK]
              /\ nmCall' = [NoConnectCall EXCEPT !.pc = "connect"]
    /\ UNCHANGED outsideConnect

\* Lines 171-176: one connection attempt begins.
WlanConnect ==
    /\ nmCall.pc = "connect"
    /\ \E ok \in BOOLEAN :
         IF ok
         THEN /\ nmCall' = [nmCall EXCEPT !.pc = "poll", !.polls = 0,
                                          !.attempts = @ + 1, !.lastWait = FALSE]
              /\ UNCHANGED nm
         ELSE /\ nm' = [nm EXCEPT !._last_error = WIFI_ERR_CONNECT_FAIL]
              /\ nmCall' = [nmCall EXCEPT !.pc = "done", !.result = "False",
                                          !.attempts = @ + 1, !.lastWait = FALSE]
    /\ UNCHANGED outsideConnect

\* Lines 177-195: one turn of the polling loop.
PollStatus ==
    /\ nmCall.pc = "poll"
    /\ IF nmCall.polls >= TimeoutPolls
       THEN /\ nmCall' = [nmCall EXCEPT !.pc = "retry"]
            /\ UNCHANGED nm
       ELSE \E status \in Statuses :
              LET heard == [nmCall EXCEPT !.seen = @ \cup {status}]
              IN  CASE status = "STAT_GOT_IP" ->
                         /\ nmCall' = [heard EXCEPT !.pc = "done", !.result = "True"]
                         /\ UNCHANGED nm
                    [] status = "STAT_WRONG_PASSWORD" ->
                         /\ nm' = [nm EXCEPT !._last_error = WIFI_ERR_AUTH_FAIL]
                         /\ nmCall' = [heard EXCEPT !.pc = "done", !.result = "False"]
                    [] status = "STAT_NO_AP_FOUND" ->
                         /\ nm' = [nm EXCEPT !._last_error = WIFI_ERR_NOT_FOUND]
                         /\ nmCall' = [heard EXCEPT !.pc = "retry"]
                    [] status = "STAT_CONNECT_FAIL" ->
                         /\ nm' = [nm EXCEPT !._last_error = WIFI_ERR_CONNECT_FAIL]
                         /\ nmCall' = [heard EXCEPT !.pc = "retry"]
                    [] status = "raises" ->
                         /\ nm' = [nm EXCEPT !._last_error = WIFI_ERR_CONNECT_FAIL]
                         /\ nmCall' = [heard EXCEPT !.pc = "done", !.result = "False"]
                    [] OTHER ->
                         /\ nmCall' = [heard EXCEPT !.polls = @ + 1]
                         /\ UNCHANGED nm
    /\ UNCHANGED outsideConnect

\* Faulty variant: one attempt more than MAX_CONNECT_RETRIES.
MayRetryOnceMore(retries) == retries <= MAX_CONNECT_RETRIES

\* Lines 171 and 199: self._connect_retries < MAX_CONNECT_RETRIES
MayRetry(retries) == retries < MAX_CONNECT_RETRIES

\* Lines 197-203 and 210-211: the retry is counted; either the wait and the
\* next attempt, or the end of the call.
HandleRetry ==
    /\ nmCall.pc = "retry"
    /\ LET retries == nm._connect_retries + 1
       IN  /\ nm' = [nm EXCEPT !._connect_retries = retries]
           /\ nmCall' =
                  IF MayRetry(retries)
                  THEN [nmCall EXCEPT !.pc = "connect",
                                      !.waits = Append(@, WaitTime(retries)),
                                      !.lastWait = TRUE]
                  ELSE [nmCall EXCEPT !.pc = "done", !.result = "False"]
    /\ UNCHANGED outsideConnect

\* status(), lines 227-233: the error half of the tuple.
status_error == nm._last_error

ConnectInit ==
    /\ ScannerIdle
    /\ ModulesIdle

ConnectNext ==
    \/ Call_connect
    \/ WlanConnect
    \/ PollStatus
    \/ HandleRetry

SpecConnect == ConnectInit /\ [][ConnectNext]_vars


(***************************************************************************)
(* Properties.                                                             *)
(***************************************************************************)
NetworksDone == pc = "done" /\ caller = "scan_wifi_networks"

\* scan_wifi_by_channel has just returned or raised (to either caller).
ByChannelExit == pc = "returned"

Last(q) == q[Len(q)]

\* Both full scans failed with a memory error: the per-channel phase ran.
FellBack == obs.fullKinds = <<"memory", "memory">>

\* C1 as stated: whenever scan_wifi_networks has returned or raised and the
\* radio rejected no restore, the radio is on the channel it was on when the
\* call started.
C1_RestoredUnlessRejected ==
    (NetworksDone /\ ~obs.anyRestoreFailed) => radioChannel = obs.startChannel

\* C1 amended: the same, for the calls in which every read of the current
\* channel that preceded an accepted switch returned a channel number.
C1_RestoredWhenChannelKnown ==
    (NetworksDone /\ ~obs.anyRestoreFailed /\ ~obs.anyBlind)
        => radioChannel = obs.startChannel

C1_Witness ==
    /\ NetworksDone
    /\ ~obs.anyRestoreFailed /\ ~obs.anyBlind
    /\ obs.chanScans = 2
    /\ per_channel_failures # <<>>
    /\ radioChannel = obs.startChannel

\* C2 as stated: whenever scan_wifi_by_channel returns a list, returns None
\* or raises, the radio is on the channel it was on when the call started.
C2_AlwaysRestored == ByChannelExit => radioChannel = obs.chanBefore

\* C2 amended: when the read of the current channel returned a channel number
\* and the radio accepted the restore, the radio is back on the channel it was
\* on when scan_wifi_by_channel started; and after an accepted switch with a
\* known previous channel a restore call is issued before the function exits,
\* also when the scan raised.
C2_RestoredWhenKnownAndAccepted ==
    ByChannelExit =>
        /\ (~obs.blind /\ ~obs.restoreFailed) => radioChannel = obs.chanBefore
        /\ (obs.switched /\ ~obs.blind) => obs.restores >= 1

C2_Witness ==
    /\ ByChannelExit
    /\ ret.kind = "raise"
    /\ obs.switched /\ ~obs.blind /\ ~obs.restoreFailed
    /\ obs.restores >= 1
    /\ obs.chanBefore # channel
    /\ radioChannel = obs.chanBefore

\* C3: once a full scan attempt has succeeded, scan_wifi_networks has returned
\* exactly the records of that attempt, in the radio's order, and no channel
\* read, set or restore call and no further scan call was issued.
C3_FullScanShortCircuit ==
    (caller = "scan_wifi_networks" /\ \E i \in 1..Len(obs.fullKinds) : obs.fullKinds[i] = "ok")
        => /\ pc = "done"
           /\ Last(obs.fullKinds) = "ok"
           /\ outcome = Returned(obs.lastScan.records)
           /\ ~obs.configCalls
           /\ obs.chanScans = 0

C3_Witness ==
    /\ NetworksDone
    /\ obs.fullKinds = <<"memory", "ok">>
    /\ Len(outcome.value) = 2
    /\ outcome.value[1] # outcome.value[2]

\* C4: once a full scan attempt has failed with an error that is not a memory
\* error, scan_wifi_networks has raised that very error, and no further scan
\* call and no channel read, set or restore call was issued.
C4_OtherErrorPropagates ==
    (caller = "scan_wifi_networks" /\ \E i \in 1..Len(obs.fullKinds) : obs.fullKinds[i] = "other")
        => /\ pc = "done"
           /\ Last(obs.fullKinds) = "other"
           /\ \A i \in 1..(Len(obs.fullKinds) - 1) : obs.fullKinds[i] = "memory"
           /\ outcome = Raised(obs.lastScan.exc)
           /\ ~_is_memory_error(outcome.exc)
           /\ obs.fullScans = Len(obs.fullKinds)
           /\ ~obs.configCalls
           /\ obs.chanScans = 0

C4_Witness ==
    /\ NetworksDone
    /\ obs.fullKinds = <<"memory", "other">>
    /\ outcome = Raised(EioErr)


Range(q) == {q[i] : i \in 1..Len(q)}

\* The records with at least 4 fields that successful channel scans returned.
FullSeen == {r \in obs.seen : Len(r) >= 4}

PerChannelReturn == NetworksDone /\ FellBack /\ outcome.kind = "return"

NoDuplicateBssid(v) == \A i, j \in 1..Len(v) : v[i][2] = v[j][2] => i = j

\* C5 as stated: the list the per-channel phase returns holds exactly one
\* record for every BSSID that appeared in a successfully scanned channel's
\* result, and it is a record seen with the highest signal strength seen for
\* that BSSID.
C5_EveryBssidKept ==
    PerChannelReturn =>
        /\ NoDuplicateBssid(outcome.value)
        /\ Range(outcome.value) \subseteq obs.seen
        /\ \A r \in obs.seen :
              \E i \in 1..Len(outcome.value) :
                  /\ outcome.value[i][2] = r[2]
                  /\ Len(r) >= 4 => outcome.value[i][4] >= r[4]

\* C5 amended: the same for every BSSID that appeared in a record of at least
\* 4 fields.
C5_EveryFullRecordBssidKept ==
    PerChannelReturn =>
        /\ NoDuplicateBssid(outcome.value)
        /\ Range(outcome.value) \subseteq FullSeen
        /\ \A r \in FullSeen :
              \E i \in 1..Len(outcome.value) :
                  /\ outcome.value[i][2] = r[2]
                  /\ outcome.value[i][4] >= r[4]

C5_Witness ==
    /\ PerChannelReturn
    /\ \E r1, r2 \in FullSeen : r1[2] = r2[2] /\ r1[3] < r2[3] /\ r1[4] > r2[4]
    /\ \E r1, r2 \in FullSeen : r1[2] = r2[2] /\ r1[3] < r2[3] /\ r1[4] < r2[4]

\* C6: when both full scans failed with memory errors and no channel gave a
\* supported scan attempt, scan_wifi_networks raises one RuntimeError whose
\* message is the prefix followed by the failure entries in the order they
\* occurred (full scan entries, then channel entries), joined by "; ".
C6_AggregateMessage ==
    (NetworksDone /\ FellBack /\ ~obs.yielded)
        => /\ obs.log # <<>>
           /\ outcome = RaisedRuntime(AggregatePrefix \o JoinSemi(obs.log))

C6_Witness ==
    /\ NetworksDone /\ FellBack /\ ~obs.yielded
    /\ outcome.kind = "raise"
    /\ Len(obs.log) = 4
    /\ obs.chanScans = 1

\* C7: when both full scans failed with memory errors and on some channel the
\* switch was accepted and the scan returned or failed with a memory error,
\* scan_wifi_networks returns the merged list and raises nothing.
C7_OneChannelSuffices ==
    (NetworksDone /\ FellBack /\ obs.yielded) => outcome = Returned(dedup)

C7_Witness ==
    /\ NetworksDone /\ FellBack /\ obs.yielded
    /\ outcome = Returned(<<>>)
    /\ Len(per_channel_failures) = 1
    /\ Len(channels) = 2

ChannelEntry(c, text) == "channel " \o ToString(c) \o ": " \o text

AggregateRaised ==
    outcome = RaisedRuntime(AggregatePrefix \o JoinSemi(obs.log))

\* C8 as stated: with a radio that has no config attribute and two full scans
\* failing with memory errors, the aggregate error holds the entry
\* "channel {c}: channel switching unsupported" for every channel c.
C8_GenericUnsupportedEntries ==
    (NetworksDone /\ FellBack /\ radioConfig = "missing")
        => /\ AggregateRaised
           /\ \A i \in 1..Len(channels) :
                  ChannelEntry(channels[i], "channel switching unsupported")
                      \in Range(obs.log)

\* C8 amended: the entry for every channel c is
\* "channel {c}: WLAN.config attribute missing" (and
\* "channel {c}: WLAN.config is not callable" when config is not callable).
C8_ConfigDiagnosticEntries ==
    (NetworksDone /\ FellBack /\ radioConfig # "callable")
        => /\ AggregateRaised
           /\ \A i \in 1..Len(channels) :
                  ChannelEntry(channels[i],
                               IF radioConfig = "missing"
                               THEN "WLAN.config attribute missing"
                               ELSE "WLAN.config is not callable")
                      \in Range(obs.log)

C8_Witness ==
    /\ NetworksDone /\ FellBack /\ radioConfig = "missing"
    /\ Len(channels) = 2
    /\ outcome.kind = "raise"
    /\ Len(obs.log) = 4

PerChannelPcs ==
    {"loop", "by_channel", "read", "set_kw", "set_pos", "scan", "restore",
     "restore_pos", "returned", "verdict"}

\* C9: scan_wifi_networks makes at most 2 full scan calls, and it is in the
\* per-channel phase (or has issued a channel call) only after exactly 2 full
\* scan calls that both failed with a memory error.
C9_TwoFullScansBeforeFallback ==
    caller = "scan_wifi_networks" =>
        /\ obs.fullScans <= 2
        /\ (pc \in PerChannelPcs \/ obs.configCalls \/ obs.chanScans > 0)
              => (obs.fullScans = 2 /\ FellBack)

C9_Witness ==
    /\ caller = "scan_wifi_networks"
    /\ pc = "scan"
    /\ idx = 2
    /\ obs.sets = 1
    /\ obs.fullScans = 2

\* C10: a memory failure of the scan on a switched channel makes
\* scan_wifi_by_channel return an empty list, and scan_wifi_networks then
\* counts the channel as scanned and goes on with the next channel of the list.
C10_EmptyOnMemoryFailure ==
    (ByChannelExit /\ obs.scanKind = "memory") => ret = RetList(<<>>)

C10_SweepContinues ==
    /\ (pc = "returned" /\ caller = "scan_wifi_networks" /\ obs.scanKind = "memory")
          => /\ pc' = "loop"
             /\ outcome' = NoOutcome
             /\ per_channel_failures' = per_channel_failures
    /\ (pc = "loop" /\ idx <= Len(channels))
          => /\ pc' = "by_channel"
             /\ channel' = channels[idx]
    /\ (pc = "returned" /\ caller = "direct" /\ obs.scanKind = "memory")
          => outcome' = Returned(<<>>)

\* C10: in every behaviour, a channel scan that failed with a memory error
\* gives an empty list, and the per-channel sweep then continues.
C10_MemoryFailureIsEmptyChannel ==
    []C10_EmptyOnMemoryFailure /\ [][C10_SweepContinues]_vars

C10_Witness ==
    /\ ByChannelExit
    /\ caller = "scan_wifi_networks"
    /\ obs.scanKind = "memory"
    /\ ret = RetList(<<>>)
    /\ idx <= Len(channels)


\* C11: the channels handed to scan_wifi_by_channel are the channels of the
\* list, each once and in list order, and every one of them has been tried
\* when the per-channel phase ends; every channel that gave no list (switch
\* unsupported, or scan failed with a non-memory error) has one entry in the
\* failure log.
C11_EveryChannelOnceInOrder ==
    caller = "scan_wifi_networks" =>
        /\ Len(obs.tried) <= Len(channels)
        /\ obs.tried = SubSeq(channels, 1, Len(obs.tried))
        /\ Len(obs.results) \in {Len(obs.tried), Len(obs.tried) - 1}
        /\ (pc \in {"loop", "verdict"} \/ (pc = "done" /\ FellBack))
              => Len(obs.results) = Len(obs.tried)
        /\ (pc = "verdict" \/ (pc = "done" /\ FellBack)) => obs.tried = channels
        /\ Len(per_channel_failures)
              = Cardinality({i \in 1..Len(obs.results) : obs.results[i] # "list"})

\* C11, the step: a channel that gave no list adds the one entry
\* "channel {c}: ..." to the failure log, and after any channel's result the
\* loop goes on (to the next channel, if there is one).
C11_FailureLoggedSweepContinues ==
    (pc = "returned" /\ caller = "scan_wifi_networks")
        => /\ pc' = "loop"
           /\ ret.kind = "raise"
                 => per_channel_failures'
                      = Append(per_channel_failures,
                               ChannelEntry(channel, _format_exception(ret.exc)))
           /\ ret.kind = "none"
                 => \E text \in {JoinSemi(diagnostics), "channel switching unsupported"} :
                       per_channel_failures'
                         = Append(per_channel_failures, ChannelEntry(channel, text))
           /\ ret.kind = "list" => per_channel_failures' = per_channel_failures

\* C11: in the per-channel phase every channel of the list is attempted exactly
\* once, in list order, whatever happened on earlier channels: a channel whose
\* switch is unsupported or whose scan fails with a non-memory error adds one
\* "channel {c}: ..." entry to the failure log and the sweep continues.
C11_SweepVisitsEveryChannel ==
    []C11_EveryChannelOnceInOrder /\ [][C11_FailureLoggedSweepContinues]_vars

C11_Witness ==
    /\ NetworksDone /\ FellBack
    /\ obs.tried = channels
    /\ obs.results = <<"none", "raise">>
    /\ Len(per_channel_failures) = 2


\* The radio could not be switched: config is missing or not callable, or the
\* last set call of this scan_wifi_by_channel call failed.
CannotSwitch == radioConfig # "callable" \/ ~obs.switched

\* C12: when the radio cannot switch channel (config missing, config not
\* callable, or the set call failed), scan_wifi_by_channel returns None, raises
\* nothing, has not called the radio's scan, and the diagnostics list it was
\* given is at least one entry longer than at the call.
C12_NoneWhenCannotSwitch ==
    (ByChannelExit /\ CannotSwitch)
        => /\ ret = RetNone
           /\ obs.scanKind = "none"
           /\ diagGiven => Len(diagnostics) > obs.diagBefore
           /\ diagGiven => SubSeq(diagnostics, 1, obs.diagBefore)
                               \in {<<>>, <<"earlier entry">>}

C12_Witness ==
    /\ ByChannelExit /\ CannotSwitch
    /\ caller = "direct"
    /\ radioConfig = "callable"
    /\ diagGiven /\ obs.diagBefore = 1
    /\ obs.sets = 2
    /\ ret = RetNone
    /\ Len(diagnostics) = 2


\* What scan_wifi_by_channel gives for its scan's outcome, read off lines
\* 129-145: the records, an empty list for a memory failure, the error itself
\* otherwise.
ScanResultOf(o) ==
    IF o.ok THEN RetList(o.records)
    ELSE IF o.exc \in {MemoryErr, EnomemErr} THEN RetList(<<>>)
    ELSE RetRaise(o.exc)

RestoreFailureEntries(exc) ==
    {"restoring channel failed: " \o _format_exception(exc),
     "restoring channel via positional arguments failed: " \o _format_exception(exc)}

\* C13: when the radio rejected the restore call, scan_wifi_by_channel still
\* returns the records of its scan (or raises the scan's own non-memory error),
\* does not raise the restore's failure, and the last entry of the diagnostics
\* list it was given describes the restore failure.
C13_RestoreFailureSwallowed ==
    (ByChannelExit /\ obs.restoreFailed)
        => /\ obs.scanKind # "none"
           /\ ret = ScanResultOf(obs.chanScan)
           /\ diagGiven => /\ Len(diagnostics) > obs.diagBefore
                           /\ Last(diagnostics) \in RestoreFailureEntries(obs.restoreExc)

C13_Witness ==
    /\ ByChannelExit /\ obs.restoreFailed
    /\ obs.restores = 2
    /\ obs.restoreExc = EioErr
    /\ obs.chanScan.ok /\ Len(obs.chanScan.records) = 1
    /\ ret = RetList(obs.chanScan.records)
    /\ diagGiven


\* C14: no failure classified as out of memory is raised out of
\* scan_wifi_by_channel or scan_wifi_networks: a memory failure of a full scan
\* is retried or leads to the per-channel phase, one of a channel's scan gives
\* the empty list, one of a set call gives None (channel unsupported), one of
\* a read or restore call changes nothing in the result, and what
\* scan_wifi_networks raises after memory failures is the aggregate error or a
\* non-memory error.
C14_MemoryFailureNeverRaised ==
    /\ ret.kind = "raise" => ~_is_memory_error(ret.exc)
    /\ outcome.kind = "raise" => ~_is_memory_error(outcome.exc)
    /\ (ByChannelExit /\ obs.scanKind = "memory") => ret = RetList(<<>>)
    /\ (ByChannelExit /\ "set" \in obs.memAt) => ret = RetNone
    /\ (ByChannelExit /\ obs.memAt \cap {"read", "restore"} # {} /\ obs.scanKind # "none")
          => ret = ScanResultOf(obs.chanScan)
    /\ (NetworksDone /\ FellBack)
          => \/ outcome.kind = "return"
             \/ outcome = RaisedRuntime(AggregatePrefix \o JoinSemi(obs.log))

C14_Witness ==
    /\ ByChannelExit /\ caller = "scan_wifi_networks" /\ FellBack
    /\ obs.scanKind = "memory"
    /\ "restore" \in obs.memAt
    /\ ret = RetList(<<>>)
    /\ per_channel_failures
          = <<"channel 1: setting channel via positional arguments failed: MemoryError">>


CountOf(q, S) == Cardinality({i \in 1..Len(q) : q[i] \in S})

\* C15 as stated: every error scan_wifi_networks raises is the aggregate
\* failure whose message is the concatenated failure log, and it is raised
\* only when no full scan and no channel succeeded.
C15_OnlyAggregateRaised ==
    (NetworksDone /\ outcome.kind = "raise")
        => /\ AggregateRaised
           /\ ~obs.yielded
           /\ CountOf(obs.fullKinds, {"ok"}) = 0

\* C15 amended: an error scan_wifi_networks raises is either the non-memory
\* error of a full scan attempt, raised unchanged with no channel tried, or the
\* aggregate failure whose message is the concatenated failure log, raised only
\* when both full scans failed with memory errors and no channel gave a
\* supported scan attempt; the log holds one entry for every full scan memory
\* failure and for every channel that gave no list.
C15_AggregateOrFullScanError ==
    /\ (NetworksDone /\ outcome.kind = "raise")
          => \/ /\ Last(obs.fullKinds) = "other"
                /\ outcome = Raised(obs.lastScan.exc)
                /\ obs.tried = <<>>
             \/ /\ FellBack /\ ~obs.yielded
                /\ AggregateRaised
    /\ caller = "scan_wifi_networks"
          => Len(obs.log) = CountOf(obs.fullKinds, {"memory"})
                              + CountOf(obs.results, {"none", "raise"})

C15_Witness ==
    /\ NetworksDone /\ outcome.kind = "raise"
    /\ FellBack /\ ~obs.yielded
    /\ obs.results = <<"raise", "none">>
    /\ Len(obs.log) = 4
    /\ AggregateRaised


\* C16, the state: gc.collect has run at most once, and it has run exactly
\* when the first full scan attempt failed with a memory error; so it has run
\* whenever a second scan call is made.
C16_CollectedIffFirstFailedOnMemory ==
    caller = "scan_wifi_networks" =>
        /\ obs.gcCalls <= 1
        /\ obs.gcCalls = 1 <=> (obs.fullKinds # <<>> /\ obs.fullKinds[1] = "memory")
        /\ obs.fullScans = 2 => obs.gcCalls = 1

\* C16, the step: gc.collect runs only in the handling of the first scan
\* call's failure, hence before the second scan call and never after it.
C16_CollectedOnlyAfterFirstAttempt ==
    obs'.gcCalls # obs.gcCalls
        => /\ obs.fullScans = 0 /\ obs'.fullScans = 1
           /\ obs'.gcCalls = obs.gcCalls + 1
           /\ obs'.fullKinds = <<"memory">>

\* C16: scan_wifi_networks calls gc.collect between the first and the second
\* full scan attempt if and only if the first attempt failed with a memory
\* error: at most once per call, before the second scan call, and never after
\* the second attempt.
C16_CollectBetweenAttempts ==
    []C16_CollectedIffFirstFailedOnMemory /\ [][C16_CollectedOnlyAfterFirstAttempt]_vars

C16_Witness ==
    /\ NetworksDone
    /\ obs.fullKinds = <<"memory", "memory">>
    /\ obs.gcCalls = 1
    /\ obs.chanScans = 2


\* The message texts that hold "out of memory" or "enomem" in some letter case.
MemoryTexts ==
    {"wifi out of memory", "ENOMEM", "Out Of Memory", "WIFI OUT OF MEMORY",
     "EnoMem raised"}

\* C17 as stated: a failure is classified as out of memory exactly when it is
\* a MemoryError, or an OSError whose errno is ENOMEM, or any failure whose
\* message text holds "out of memory" or "enomem" in some letter case.
C17_TextOfAnyFailure ==
    isMemory # "unset" =>
        (isMemory = "True")
            <=> \/ raisedExc.cls = "MemoryError"
                \/ (raisedExc.cls = "OSError" /\ raisedExc.errno = ENOMEM)
                \/ raisedExc.text \in MemoryTexts

\* C17 amended: a failure is classified as out of memory exactly when it is a
\* MemoryError, or an OSError whose errno is ENOMEM or whose message text holds
\* "out of memory" or "enomem" in some letter case.
C17_TextOfOSErrorOnly ==
    isMemory # "unset" =>
        (isMemory = "True")
            <=> \/ raisedExc.cls = "MemoryError"
                \/ /\ raisedExc.cls = "OSError"
                   /\ (raisedExc.errno = ENOMEM \/ raisedExc.text \in MemoryTexts)

C17_Witness ==
    /\ isMemory = "True"
    /\ raisedExc = Exc("OSError", EIO, "Out Of Memory")


\* How far the running scan_wifi_by_channel call is from its exit.
StepsToExit ==
    CASE pc = "by_channel" -> 8
      [] pc = "read" -> 7
      [] pc = "set_kw" -> 6
      [] pc = "set_pos" -> 5
      [] pc = "scan" -> 4
      [] pc = "restore" -> 3
      [] pc = "restore_pos" -> 2
      [] pc = "returned" -> 1
      [] OTHER -> 0

\* A bound on the number of steps the running call can still take.
StepsLeft ==
    CASE pc = "done" -> 0
      [] pc = "verdict" -> 1
      [] pc = "full_scan" -> 2 + 10 * (Len(channels) + 1) + (3 - attempt)
      [] pc = "idle" -> 2 + 10 * (MaxChannels + 1) + 3
      [] OTHER -> 2 + 10 * (Len(channels) + 1 - idx) + StepsToExit

\* C18, the counts: at most 2 full scan calls, at most one scan call per
\* channel tried, and for the channel being tried at most one channel read,
\* two set calls and two restore calls.
C18_CallCounts ==
    /\ obs.fullScans <= 2
    /\ obs.chanScans <= Len(obs.tried) + (IF caller = "direct" THEN 1 ELSE 0)
    /\ Len(obs.tried) <= Len(channels)
    /\ obs.reads <= 1
    /\ obs.sets <= 2
    /\ obs.restores <= 2
    /\ StepsLeft >= 0
    /\ pc = "done" \/ ENABLED Next

\* C18, the step: every step of a call brings it nearer to its return or raise.
C18_StepsLeftDecrease == StepsLeft' < StepsLeft

\* C18: every call of scan_wifi_networks terminates, after at most 2 full scan
\* calls and at most one scan call per channel of the list; per channel it
\* makes at most one channel read, two set attempts and two restore attempts.
C18_BoundedCalls == []C18_CallCounts /\ [][C18_StepsLeftDecrease]_vars

C18_Witness ==
    /\ ByChannelExit /\ caller = "scan_wifi_networks"
    /\ idx = Len(channels) + 1
    /\ obs.fullScans = 2
    /\ obs.chanScans = Len(channels)
    /\ Len(channels) = MaxChannels
    /\ obs.reads = 1 /\ obs.sets = 2 /\ obs.restores = 2


\* C20, the result: of the records of one BSSID seen with the strength of the
\* record returned, the one returned is the one merged first (the channels are
\* swept in rising order and a record names the channel it was heard on).
C20_FirstOfEqualStrengthKept ==
    PerChannelReturn =>
        \A i \in 1..Len(outcome.value) :
            \A r \in FullSeen :
                (r[2] = outcome.value[i][2] /\ r[4] = outcome.value[i][4])
                    => outcome.value[i][3] <= r[3]

\* C20, the step: the merge of a channel's records replaces an existing entry
\* only by a record of the same BSSID with a strictly higher signal strength.
C20_ReplacedOnlyByStronger ==
    (pc = "returned" /\ caller = "scan_wifi_networks")
        => /\ Len(dedup') >= Len(dedup)
           /\ \A i \in 1..Len(dedup) :
                  dedup'[i] # dedup[i]
                      => /\ dedup'[i][2] = dedup[i][2]
                         /\ dedup'[i][4] > dedup[i][4]
                         /\ dedup'[i] \in Range(ret.value)

\* C20: when two records of one BSSID have equal signal strength the merge
\* keeps the one merged first; a later record replaces the existing one only
\* when its signal strength is strictly higher.
C20_TiesKeepExisting ==
    []C20_FirstOfEqualStrengthKept /\ [][C20_ReplacedOnlyByStronger]_vars

C20_Witness ==
    /\ PerChannelReturn
    /\ \E r1, r2 \in FullSeen :
          /\ r1[2] = r2[2] /\ r1[4] = r2[4] /\ r1[3] < r2[3]
          /\ r1 \in Range(outcome.value)


SecondDone == NetworksDone /\ obs.mode = "replay"

\* The radio has an answer for the call the scanner is about to make.
RadioAnswers ==
    /\ pc = "full_scan" => Answers("scan", ScanOutcomes(radioChannel)) # {}
    /\ pc = "read" => Answers("read", ReadOutcomes) # {}
    /\ pc = "set_kw" => Answers("set", KeywordSetOutcomes) # {}
    /\ pc = "set_pos" => Answers("set", PositionalSetOutcomes) # {}
    /\ pc = "scan" => Answers("scan", ScanOutcomes(radioChannel)) # {}
    /\ (pc = "restore" /\ previous # None)
          => Answers("restore", KeywordSetOutcomes) # {}
    /\ pc = "restore_pos" => Answers("restore", PositionalSetOutcomes) # {}

\* C19: when the second of two successive scan_wifi_networks calls has ended,
\* the radio having answered every call as in the first, it has made the same
\* radio calls and returned the same records or raised the same error as the
\* first; the records it returns after a per-channel phase were all heard in
\* the second call, and the message it raises is made of the second call's
\* failure entries alone.
C19_SecondCallSameOutcome ==
    /\ SecondDone
          => /\ outcome = obs.first
             /\ obs.tape = <<>>
             /\ (FellBack /\ outcome.kind = "return")
                   => Range(outcome.value) \subseteq obs.seen
             /\ (FellBack /\ outcome.kind = "raise") => AggregateRaised
    /\ obs.mode = "replay" => RadioAnswers

C19_Witness ==
    /\ SecondDone
    /\ FellBack
    /\ outcome = obs.first
    /\ outcome.kind = "return"
    /\ Len(outcome.value) = 2

\* The set calls of the current scan_wifi_by_channel call, in order.
SetCalls == SelectSeq(obs.calls, LAMBDA c : c.what \in {"set_kw", "set_pos"})

BothFormsFailed ==
    /\ Len(SetCalls) = 2
    /\ ~SetCalls[1].ok
    /\ ~SetCalls[2].ok

KeywordFailedOtherwise ==
    /\ SetCalls # <<>>
    /\ ~SetCalls[1].ok
    /\ SetCalls[1].exc.cls # "TypeError"

\* The keyword form comes first and the positional form only after a keyword
\* form that failed with a TypeError.
SetFormsInOrder ==
    /\ Len(SetCalls) <= 2
    /\ SetCalls # <<>> => SetCalls[1].what = "set_kw"
    /\ Len(SetCalls) = 2
          => /\ SetCalls[2].what = "set_pos"
             /\ ~SetCalls[1].ok
             /\ SetCalls[1].exc.cls = "TypeError"

\* C21 as stated: scan_wifi_by_channel tries the keyword form of the set
\* first, the positional form only after the keyword form failed with a
\* TypeError, and, on a radio whose config is callable, returns None only if
\* both forms were tried and failed.
C21_NoneOnlyIfBothFormsFailed ==
    /\ SetFormsInOrder
    /\ (ByChannelExit /\ ret = RetNone /\ radioConfig = "callable")
          => BothFormsFailed

\* C21 amended: scan_wifi_by_channel tries the keyword form of the set first
\* and the positional form only after the keyword form failed with a
\* TypeError; on a radio whose config is callable it returns None exactly when
\* the last form it tried failed, which is when both forms failed or when the
\* keyword form failed with another error and the positional form was not
\* tried.
C21_NoneIfLastFormFailed ==
    /\ SetFormsInOrder
    /\ (ByChannelExit /\ radioConfig = "callable")
          => /\ SetCalls # <<>>
             /\ ret = RetNone <=> ~Last(SetCalls).ok
             /\ ret = RetNone
                   => \/ BothFormsFailed
                      \/ (Len(SetCalls) = 1 /\ KeywordFailedOtherwise)

C21_Witness ==
    /\ ByChannelExit
    /\ ret = RetNone
    /\ Len(SetCalls) = 1
    /\ SetCalls[1].exc = EioErr

\* C22 as stated: when the keyword form of the set fails with an error other
\* than TypeError, the positional form is not tried and scan_wifi_by_channel
\* raises that error to its caller.
C22_OtherSetFailurePropagates ==
    (ByChannelExit /\ KeywordFailedOtherwise)
        => /\ Len(SetCalls) = 1
           /\ ret = RetRaise(SetCalls[1].exc)

\* C22 amended: when the keyword form of the set fails with an error other
\* than TypeError, the positional form is not tried, the radio is neither
\* scanned nor restored, and scan_wifi_by_channel raises nothing: it appends
\* "setting channel failed: ..." with the error to the diagnostics list it
\* was given and returns None.
C22_OtherSetFailureReturnsNone ==
    /\ KeywordFailedOtherwise => Len(SetCalls) = 1 /\ Last(obs.calls) = SetCalls[1]
    /\ (ByChannelExit /\ KeywordFailedOtherwise)
          => /\ ret = RetNone
             /\ diagGiven
                   => /\ Len(diagnostics) > obs.diagBefore
                      /\ Last(diagnostics) = "setting channel failed: "
                                \o _format_exception(SetCalls[1].exc)

C22_Witness ==
    /\ ByChannelExit
    /\ caller = "direct"
    /\ diagGiven
    /\ KeywordFailedOtherwise
    /\ SetCalls[1].exc = MemoryErr
    /\ ret = RetNone

\* The place of each radio call in one scan_wifi_by_channel call.
CallRank(what) ==
    CASE what = "read" -> 1
      [] what = "set_kw" -> 2
      [] what = "set_pos" -> 3
      [] what = "scan" -> 4
      [] what = "restore_kw" -> 5
      [] what = "restore_pos" -> 6

\* The radio calls of the current channel came in the order read, set, scan,
\* restore, each at most once per form, the read first.
CallsInOrder ==
    /\ obs.calls # <<>> => obs.calls[1].what = "read"
    /\ \A i, j \in 1..Len(obs.calls) :
          i < j => CallRank(obs.calls[i].what) < CallRank(obs.calls[j].what)

\* The per-channel phase is about to issue the set call of a channel.
SweepSetBegins == caller = "scan_wifi_networks" /\ pc = "set_kw"

\* C23 as stated: in the per-channel phase the radio calls of a channel come
\* in the order read, set, scan, restore; when the set call of a channel
\* begins, every call of the channels before it has been made and the radio
\* is no longer on any of them: it is back on the channel it was on before
\* the sweep.
C23_RestoredBeforeNextSet ==
    /\ CallsInOrder
    /\ SweepSetBegins
          => /\ Len(obs.calls) = 1
             /\ radioChannel = obs.startChannel

\* C23 amended: in the per-channel phase the radio calls of a channel come in
\* the order read, set, scan, restore; when the set call of a channel begins,
\* every call of the channels before it has been made, and the radio is back
\* on the channel it was on before the sweep provided that, so far, every
\* switch followed a read that returned a channel and the radio rejected no
\* restore call.
C23_RestoredBeforeNextSetWhenKnown ==
    /\ CallsInOrder
    /\ SweepSetBegins
          => /\ Len(obs.calls) = 1
             /\ (~obs.anyBlind /\ ~obs.anyRestoreFailed)
                   => radioChannel = obs.startChannel

C23_Witness ==
    /\ SweepSetBegins
    /\ Len(obs.tried) = 2
    /\ obs.chanScans = 1
    /\ ~obs.anyBlind
    /\ ~obs.anyRestoreFailed
    /\ obs.tried[1] # obs.startChannel
    /\ radioChannel = obs.startChannel

\* C24: every scan call that scan_wifi_by_channel makes comes directly after
\* a set call that the radio accepted, and the radio is on the requested
\* channel when the scan call is made.
C24_ScanOnRequestedChannel ==
    /\ \A i \in 1..Len(obs.calls) :
          obs.calls[i].what = "scan"
             => /\ i > 1
                /\ obs.calls[i - 1].what \in {"set_kw", "set_pos"}
                /\ obs.calls[i - 1].ok
                /\ obs.calls[i].at = channel
    /\ pc = "scan" => radioChannel = channel /\ obs.switched

C24_Witness ==
    /\ ByChannelExit
    /\ \E i \in 1..Len(obs.calls) :
          /\ obs.calls[i].what = "scan"
          /\ obs.calls[i].at = channel
          /\ obs.calls[i - 1].what = "set_pos"
    /\ obs.chanBefore # channel

\* Every radio call of the current scan_wifi_by_channel call succeeded, a
\* TypeError from a keyword form that the positional form made good aside,
\* and the scan was among them.
AllCallsSucceeded ==
    /\ \E i \in 1..Len(obs.calls) : obs.calls[i].what = "scan"
    /\ \A i \in 1..Len(obs.calls) :
          \/ obs.calls[i].ok
          \/ /\ obs.calls[i].what \in {"set_kw", "restore_kw"}
             /\ obs.calls[i].exc.cls = "TypeError"
             /\ i < Len(obs.calls)
             /\ obs.calls[i + 1].ok

\* C25: when the read, the set, the scan and the restore all succeeded,
\* scan_wifi_by_channel returns the records of the scan as a list, the empty
\* list when the scan found nothing, and the diagnostics list it was given
\* is as it was when the call began.
C25_SuccessReturnsRecords ==
    (ByChannelExit /\ AllCallsSucceeded)
        => /\ ret = RetList(obs.chanScan.records)
           /\ Len(diagnostics) = obs.diagBefore
           /\ diagnostics \in {d.list : d \in DirectDiagnostics}

C25_Witness ==
    /\ ByChannelExit
    /\ caller = "direct"
    /\ AllCallsSucceeded
    /\ obs.restores = 1
    /\ radioChannel = obs.chanBefore
    /\ radioChannel # channel
    /\ diagnostics = <<"earlier entry">>
    /\ Len(ret.value) = 1

FullScanEntries(n) ==
    {"full scan attempt " \o ToString(n) \o ": " \o _format_exception(e) :
        e \in {MemoryErr, EnomemErr}}

Placeholder == "no scanning methods succeeded"

\* C26: whenever scan_wifi_networks raises the aggregate error, the entries
\* of its message are "full scan attempt 1: ..." and "full scan attempt 2:
\* ...", each with the memory error of that attempt, followed by the entries
\* of the channels and by nothing else; the entries are never none, and the
\* message is never the placeholder "no scanning methods succeeded".
C26_FullScanEntriesLead ==
    (NetworksDone /\ outcome.kind = "raise" /\ outcome.exc.cls = "RuntimeError")
        => /\ Len(attempts) = 2
           /\ attempts[1] \in FullScanEntries(1)
           /\ attempts[2] \in FullScanEntries(2)
           /\ \A i \in 1..Len(per_channel_failures) :
                 per_channel_failures[i] \notin FullScanEntries(1) \cup FullScanEntries(2)
           /\ outcome.message
                 = AggregatePrefix \o JoinSemi(attempts \o per_channel_failures)
           /\ outcome.message # AggregatePrefix \o Placeholder
           /\ Details # <<Placeholder>>

C26_Witness ==
    /\ NetworksDone
    /\ outcome.kind = "raise"
    /\ outcome.exc.cls = "RuntimeError"
    /\ attempts[1] = "full scan attempt 1: " \o _format_exception(MemoryErr)
    /\ attempts[2] = "full scan attempt 2: " \o _format_exception(EnomemErr)
    /\ Len(per_channel_failures) = 2

\* The restore calls of the current scan_wifi_by_channel call.
RestoreCalls ==
    SelectSeq(obs.calls, LAMBDA c : c.what \in {"restore_kw", "restore_pos"})

\* The read of the current channel gave a channel.
ReadGaveValue == obs.readValue # None

\* C27: scan_wifi_by_channel issues a restore call only after a successful
\* switch that followed a read which returned a channel, and by the time it
\* returns or raises it has issued one in every such call; when the switch
\* succeeded after a read that failed or returned no value, it issues no
\* restore call and the radio is on the scanned channel when it returns or
\* raises.
C27_RestoreIffSwitchedAndRead ==
    /\ RestoreCalls # <<>> => obs.switched /\ ReadGaveValue
    /\ ByChannelExit
          => /\ (obs.switched /\ ReadGaveValue) => RestoreCalls # <<>>
             /\ (obs.switched /\ ~ReadGaveValue)
                   => /\ RestoreCalls = <<>>
                      /\ radioChannel = channel

C27_Witness ==
    /\ ByChannelExit
    /\ obs.switched
    /\ ~ReadGaveValue
    /\ ~obs.calls[1].ok
    /\ RestoreCalls = <<>>
    /\ radioChannel = channel
    /\ obs.chanBefore # channel

\* scan_wifi_networks takes the result of the current channel.
ChannelResultTaken ==
    /\ pc = "returned"
    /\ caller = "scan_wifi_networks"
    /\ pc' # "returned"

\* C28: in scan_wifi_networks the per-channel failure log gets exactly one
\* entry, built from the channel's own number and failure, when the channel's
\* call returned None or raised, and stays as it is when the call returned a
\* list, whatever diagnostics the call gathered; so the log holds one entry
\* for each channel that gave no list, and a list the per-channel phase
\* returns holds only records that the channel scans returned.
C28_OneEntryPerFailedChannel ==
    /\ [](caller = "scan_wifi_networks"
             => Len(per_channel_failures) = CountOf(obs.results, {"none", "raise"}))
    /\ []((NetworksDone /\ FellBack /\ outcome.kind = "return")
             => /\ Range(outcome.value) \subseteq obs.seen
                /\ CountOf(obs.results, {"list"}) >= 1)
    /\ []((NetworksDone /\ FellBack /\ outcome.kind = "raise")
             => ~obs.discarded)
    /\ [][ChannelResultTaken
             => per_channel_failures' =
                   IF ret.kind = "list" THEN per_channel_failures
                   ELSE IF ret.kind = "raise"
                   THEN Append(per_channel_failures,
                               ChannelEntry(channel, _format_exception(ret.exc)))
                   ELSE Append(per_channel_failures,
                               ChannelEntry(channel, JoinSemi(diagnostics)))]_vars

C28_Witness ==
    /\ NetworksDone
    /\ FellBack
    /\ obs.discarded
    /\ obs.results = <<"list", "none">>
    /\ Len(per_channel_failures) = 1
    /\ outcome.kind = "return"

\* C29: when both full scans failed with memory errors and the channels
\* argument is empty, scan_wifi_networks calls the radio no further and
\* raises the aggregate error, whose message holds the two full scan entries
\* and nothing else; it does not return an empty list.
C29_EmptySweepRaises ==
    (NetworksDone /\ FellBack /\ channels = <<>>)
        => /\ outcome.kind = "raise"
           /\ Len(attempts) = 2
           /\ per_channel_failures = <<>>
           /\ outcome = RaisedRuntime(AggregatePrefix \o attempts[1] \o "; "
                                        \o attempts[2])
           /\ obs.fullScans = 2
           /\ obs.chanScans = 0
           /\ ~obs.configCalls

C29_Witness ==
    /\ NetworksDone
    /\ FellBack
    /\ channels = <<>>
    /\ outcome.kind = "raise"
    /\ outcome.message = AggregatePrefix
          \o "full scan attempt 1: " \o _format_exception(EnomemErr) \o "; "
          \o "full scan attempt 2: " \o _format_exception(MemoryErr)

ShortRecords(v) == {i \in 1..Len(v) : Len(v[i]) < 4}

\* C30: a record of fewer than 4 fields that a channel scan returned never
\* enters the merged networks, so it is not in the list scan_wifi_networks
\* returns; taking a list that holds such a record adds nothing to the
\* failure log and marks the per-channel phase as supported like any other
\* list, so that the call returns a list and raises nothing.
C30_ShortRecordsDropped ==
    /\ [](caller = "scan_wifi_networks" => ShortRecords(dedup) = {})
    /\ []((NetworksDone /\ FellBack /\ \E r \in obs.seen : Len(r) < 4)
             => /\ outcome = Returned(dedup)
                /\ ShortRecords(outcome.value) = {})
    /\ [][(ChannelResultTaken /\ ret.kind = "list" /\ ShortRecords(ret.value) # {})
             => /\ per_channel_supported'
                /\ per_channel_failures' = per_channel_failures
                /\ obs'.log = obs.log
                /\ Len(dedup') <= Len(dedup) + Len(ret.value)
                                      - Cardinality(ShortRecords(ret.value))]_vars

C30_Witness ==
    /\ NetworksDone
    /\ FellBack
    /\ obs.seen = {<<"ssid", "01">>}
    /\ obs.results = <<"list", "list">>
    /\ per_channel_failures = <<>>
    /\ outcome = Returned(<<>>)

(***************************************************************************)
(* _HomeAssistantBridge.run (homeassistant.py, lines 109-136) with         *)
(* request_state_sync (lines 138-139).  The tasks of the badge are         *)
(* coroutines of one uasyncio scheduler: another task, and so a request,   *)
(* runs only while run is suspended in one of its sleeps (lines 121, 136   *)
(* and 156).  _publish_discovery and _publish_state hold no await that      *)
(* suspends, so the code from the end of _ensure_connections to line 136   *)
(* runs without a break; it is split into steps here, and no request falls *)
(* between them.  The state callback of the badge always returns its       *)
(* dictionary of six values (tests/test_bsides25.py, lines 80-95).         *)
(***************************************************************************)
\* Faulty variant: the publish calls suspend run, so a request may fall
\* anywhere in an iteration.
SuspendedAnywhere(at) == TRUE

\* run is suspended in asyncio.sleep: before its first step and at lines
\* 121, 136 and 156.
Suspended(at) == at \in {"start", "wifi_wait", "backoff", "sleep"}

\* notify_led_state, lines 69-73, and request_state_sync, lines 138-139.
Request_state_sync ==
    /\ Suspended(haRun.pc)
    /\ ha' = [ha EXCEPT !._state_dirty = TRUE]
    /\ haRun' = [haRun EXCEPT !.asked = haRun.pc, !.pending = TRUE,
                              !.published = FALSE]
    /\ UNCHANGED outsideBridge

\* notify_effect_list, lines 76-80, and request_config_sync, lines 141-142.
Request_config_sync ==
    /\ Suspended(haRun.pc)
    /\ ha' = [ha EXCEPT !._config_dirty = TRUE]
    /\ UNCHANGED <<haRun, outsideBridge>>

\* The sleep of line 121 or 136 is over (or run starts): the next iteration.
Wake ==
    /\ haRun.pc \in {"start", "backoff", "sleep"}
    /\ haRun' = [haRun EXCEPT !.pc = "ensure"]
    /\ UNCHANGED <<ha, outsideBridge>>

\* The except branch of run, lines 132-136.
Failed == [ha EXCEPT !._connected = FALSE]

\* _ensure_connections, lines 145-156: is the WiFi up?  If not, connect and
\* poll: the first isconnected of the loop, then the sleep of line 156.
EnsureWifi(up) ==
    /\ haRun.pc = "ensure"
    /\ haRun' = [haRun EXCEPT !.pc = IF up THEN "mqtt" ELSE "wifi_wait",
                              !.polls = IF up THEN 0 ELSE 1]
    /\ UNCHANGED <<ha, outsideBridge>>

\* Lines 153-159: the sleep of line 156 is over; the next isconnected of the
\* loop or, after the last poll, the one of line 158.
WifiWait(up) ==
    /\ haRun.pc = "wifi_wait"
    /\ IF up
       THEN /\ haRun' = [haRun EXCEPT !.pc = "mqtt", !.polls = 0]
            /\ UNCHANGED ha
       ELSE IF haRun.polls < WifiPolls
       THEN /\ haRun' = [haRun EXCEPT !.polls = @ + 1]
            /\ UNCHANGED ha
       ELSE /\ haRun' = [haRun EXCEPT !.pc = "sleep", !.polls = 0]
            /\ ha' = Failed
    /\ UNCHANGED outsideBridge

\* Lines 161-166 with _connect_mqtt, lines 177-194.
EnsureMqtt(ok) ==
    /\ haRun.pc = "mqtt"
    /\ IF ha._connected
       THEN /\ haRun' = [haRun EXCEPT !.pc = "check"]
            /\ UNCHANGED ha
       ELSE IF ok
       THEN /\ ha' = [ha EXCEPT !._client = TRUE, !._connected = TRUE,
                                !._state_dirty = TRUE, !._config_dirty = TRUE,
                                !._availability_sent = FALSE]
            /\ haRun' = [haRun EXCEPT !.pc = "check", !.published = FALSE]
       ELSE /\ \E made \in BOOLEAN :
                 ha' = [Failed EXCEPT !._client = @ \/ made]
            /\ haRun' = [haRun EXCEPT !.pc = "sleep"]
    /\ UNCHANGED outsideBridge

\* Lines 115-122: check_msg, which may hand a command to _on_message (lines
\* 254-282) or fail.
CheckMsg(heard) ==
    /\ haRun.pc = "check"
    /\ CASE heard = "quiet" ->
              /\ haRun' = [haRun EXCEPT !.pc = "discovery"]
              /\ UNCHANGED ha
         [] heard = "command" ->
              /\ ha' = [ha EXCEPT !._state_dirty = TRUE]
              /\ haRun' = [haRun EXCEPT !.pc = "discovery", !.published = FALSE]
         [] heard = "OSError" ->
              /\ ha' = Failed
              /\ haRun' = [haRun EXCEPT !.pc = "backoff"]
         [] OTHER ->
              /\ ha' = Failed
              /\ haRun' = [haRun EXCEPT !.pc = "sleep"]
    /\ UNCHANGED outsideBridge

\* Lines 124-126 with _publish_discovery.
PublishDiscovery(ok) ==
    /\ haRun.pc = "discovery"
    /\ IF ~ha._config_dirty
       THEN /\ haRun' = [haRun EXCEPT !.pc = "state"]
            /\ UNCHANGED ha
       ELSE IF ok
       THEN /\ ha' = [ha EXCEPT !._config_dirty = FALSE]
            /\ haRun' = [haRun EXCEPT !.pc = "state"]
       ELSE /\ ha' = Failed
            /\ haRun' = [haRun EXCEPT !.pc = "sleep"]
    /\ UNCHANGED outsideBridge

\* Lines 128-129 with _publish_state, lines 221-233, and _publish, lines
\* 245-252: the publish attempt begins with the state topic.
PublishState(ok) ==
    /\ haRun.pc = "state"
    /\ IF ~ha._state_dirty
       THEN /\ haRun' = [haRun EXCEPT !.pc = "sleep"]
            /\ UNCHANGED ha
       ELSE IF ok
       THEN /\ haRun' = [haRun EXCEPT !.pc = "attributes", !.pending = FALSE]
            /\ UNCHANGED ha
       ELSE /\ ha' = Failed
            /\ haRun' = [haRun EXCEPT !.pc = "sleep", !.pending = FALSE]
    /\ UNCHANGED outsideBridge

\* _publish_state, lines 235-239: the attributes topic.
PublishAttributes(ok) ==
    /\ haRun.pc = "attributes"
    /\ IF ok
       THEN /\ haRun' = [haRun EXCEPT !.pc = "availability"]
            /\ UNCHANGED ha
       ELSE /\ ha' = Failed
            /\ haRun' = [haRun EXCEPT !.pc = "sleep"]
    /\ UNCHANGED outsideBridge

\* _publish_state, lines 241-243: the availability topic, once per
\* connection; _publish_state returns.
PublishAvailability(ok) ==
    /\ haRun.pc = "availability"
    /\ IF ha._availability_sent
       THEN /\ haRun' = [haRun EXCEPT !.pc = "clear", !.published = TRUE]
            /\ UNCHANGED ha
       ELSE IF ok
       THEN /\ ha' = [ha EXCEPT !._availability_sent = TRUE]
            /\ haRun' = [haRun EXCEPT !.pc = "clear", !.published = TRUE]
       ELSE /\ ha' = Failed
            /\ haRun' = [haRun EXCEPT !.pc = "sleep"]
    /\ UNCHANGED outsideBridge

\* Line 130: self._state_dirty = False
ClearState ==
    /\ haRun.pc = "clear"
    /\ ha' = [ha EXCEPT !._state_dirty = FALSE]
    /\ haRun' = [haRun EXCEPT !.pc = "sleep", !.published = FALSE]
    /\ UNCHANGED outsideBridge

BridgeInit ==
    /\ ScannerIdle
    /\ ModulesIdle

\* One step of run itself.
RunStep ==
    \/ Wake
    \/ \E up \in BOOLEAN : EnsureWifi(up)
    \/ \E up \in BOOLEAN : WifiWait(up)
    \/ \E ok \in BOOLEAN : EnsureMqtt(ok)
    \/ \E heard \in {"quiet", "command", "OSError", "error"} : CheckMsg(heard)
    \/ \E ok \in BOOLEAN : PublishDiscovery(ok)
    \/ \E ok \in BOOLEAN : PublishState(ok)
    \/ \E ok \in BOOLEAN : PublishAttributes(ok)
    \/ \E ok \in BOOLEAN : PublishAvailability(ok)
    \/ ClearState

BridgeNext ==
    \/ Request_state_sync
    \/ Request_config_sync
    \/ RunStep

\* The scheduler runs the loop on, and the WiFi and MQTT connections can be
\* established: a connection, a check_msg or a discovery publish that is
\* tried again and again succeeds in the end.
BridgeFairness ==
    /\ WF_vars(RunStep)
    /\ SF_vars(EnsureWifi(TRUE))
    /\ SF_vars(WifiWait(TRUE))
    /\ SF_vars(EnsureMqtt(TRUE))
    /\ SF_vars(CheckMsg("quiet"))
    /\ SF_vars(PublishDiscovery(TRUE))

SpecBridge == BridgeInit /\ [][BridgeNext]_vars /\ BridgeFairness


(***************************************************************************)
(* Config (config.py).  A dictionary is a function from keys to values, a  *)
(* value one of                                                            *)
(*   [kind |-> "scalar", v |-> text]    a JSON scalar,                     *)
(*   [kind |-> "shared", of |-> key]    the very dictionary object that    *)
(*                                      DEFAULT_CONFIG holds under key,    *)
(*   [kind |-> "dict", d |-> dict]      a dictionary of the object alone.  *)
(* dict.copy() (line 38) copies the top level only, so a new Config holds  *)
(* the nested dictionaries of DEFAULT_CONFIG themselves.  Documents and    *)
(* paths are at most two levels deep, so a nested dictionary maps its keys *)
(* to JSON text.  The files are the environment's:                         *)
(* what open finds is an input of each call, what save writes is not kept. *)
(***************************************************************************)
Scalar(text) == [kind |-> "scalar", v |-> text]
OwnDict(d) == [kind |-> "dict", d |-> d]
EmptyDict == [k \in {} |-> Scalar("")]

\* isinstance(value, dict), line 68, of a value held by a Config.
IsDict(value) == value.kind \in {"shared", "dict"}

\* What a Config reads: get, lines 73-83, of every key.
Reads(top) ==
    [k \in DOMAIN top |->
        CASE top[k].kind = "shared" -> DEFAULT_CONFIG[top[k].of]
          [] top[k].kind = "dict" -> top[k].d
          [] OTHER -> top[k].v]

\* Line 38: DEFAULT_CONFIG.copy()
ShallowCopy == [k \in DOMAIN DEFAULT_CONFIG |-> [kind |-> "shared", of |-> k]]

\* What json.load may return: the documents of the files of this model.
Documents ==
    { EmptyDict,
      [wifi |-> OwnDict([ssid |-> "home", password |-> "secret"])],
      [wifi |-> Scalar("off")],
      [extra |-> OwnDict([level |-> "1"])],
      [badge |-> OwnDict([debug |-> "true"]), name |-> Scalar("mine")] }

\* _merge_config of a nested dictionary, lines 65-71: no value of update is
\* a dictionary, so every key is assigned.
MergeInner(base, update) ==
    [k \in DOMAIN base \cup DOMAIN update |->
        IF k \in DOMAIN update THEN update[k] ELSE base[k]]

\* Line 68: the branch of _merge_config that merges in place.
MergesInPlace(top, update, k) ==
    k \in DOMAIN top /\ k \in DOMAIN update /\ IsDict(top[k]) /\ IsDict(update[k])

\* _merge_config(self.config, loaded_config), lines 65-71: the top level of
\* the Config after it ...
MergedTop(top, update) ==
    [k \in DOMAIN top \cup DOMAIN update |->
        IF k \notin DOMAIN update THEN top[k]
        ELSE IF ~MergesInPlace(top, update, k) THEN update[k]
        ELSE IF top[k].kind = "shared" THEN top[k]
        ELSE OwnDict(MergeInner(top[k].d, update[k].d))]

\* ... and the dictionaries of DEFAULT_CONFIG after it.
MergedDefaults(top, update) ==
    [s \in DOMAIN DEFAULT_CONFIG |->
        IF \E k \in DOMAIN update :
              MergesInPlace(top, update, k) /\ top[k] = [kind |-> "shared", of |-> s]
        THEN LET k == CHOOSE k \in DOMAIN update :
                        MergesInPlace(top, update, k)
                        /\ top[k] = [kind |-> "shared", of |-> s]
             IN  MergeInner(DEFAULT_CONFIG[s], update[k].d)
        ELSE DEFAULT_CONFIG[s]]

NewObject(top, file) == [config |-> top, file |-> file, changed |-> FALSE]

\* Config(config_file), lines 36-54: the file is missing (load saves the
\* defaults), is not JSON, or holds a document.
NewConfig ==
    /\ Len(configs) < MaxConfigs
    /\ \/ /\ \E file \in {"missing", "invalid"} :
               configs' = Append(configs, NewObject(ShallowCopy, file))
          /\ UNCHANGED DEFAULT_CONFIG
       \/ \E doc \in Documents :
            /\ configs' = Append(configs,
                                 NewObject(MergedTop(ShallowCopy, doc), "loaded"))
            /\ DEFAULT_CONFIG' = MergedDefaults(ShallowCopy, doc)
    /\ UNCHANGED outsideConfig

Paths == { <<"wifi", "ssid">>, <<"badge", "debug">>, <<"extra", "level">>,
           <<"wifi">> }

\* Lines 90-94 of set: the top level after the walk to the parent.
Walked(top, path) ==
    IF Len(path) = 2 /\ path[1] \notin DOMAIN top
    THEN [k \in DOMAIN top \cup {path[1]} |->
             IF k = path[1] THEN OwnDict(EmptyDict) ELSE top[k]]
    ELSE top

\* config.set(path, value), lines 85-97.  Line 97 raises TypeError when the
\* parent is a scalar.
Set ==
    \E i \in 1..Len(configs), path \in Paths, value \in {"cafe"} :
      LET top == Walked(configs[i].config, path)
          parent == top[path[1]]
      IN  /\ IF Len(path) = 1
             THEN /\ configs' = [configs EXCEPT ![i].config =
                       [k \in DOMAIN top \cup {path[1]} |->
                           IF k = path[1] THEN Scalar(value) ELSE top[k]],
                       ![i].changed = TRUE]
                  /\ UNCHANGED DEFAULT_CONFIG
             ELSE CASE parent.kind = "shared" ->
                         /\ DEFAULT_CONFIG' =
                              [DEFAULT_CONFIG EXCEPT ![parent.of] =
                                  [k \in DOMAIN @ \cup {path[2]} |->
                                      IF k = path[2] THEN value ELSE @[k]]]
                         /\ configs' = [configs EXCEPT ![i].changed = TRUE]
                    [] parent.kind = "dict" ->
                         /\ configs' = [configs EXCEPT ![i].config =
                              [top EXCEPT ![path[1]] = OwnDict(
                                  [k \in DOMAIN parent.d \cup {path[2]} |->
                                      IF k = path[2] THEN value ELSE parent.d[k]])],
                              ![i].changed = TRUE]
                         /\ UNCHANGED DEFAULT_CONFIG
                    [] OTHER ->
                         /\ configs' = [configs EXCEPT ![i].changed = TRUE]
                         /\ UNCHANGED DEFAULT_CONFIG
          /\ UNCHANGED outsideConfig

ConfigInit ==
    /\ ScannerIdle
    /\ ModulesIdle

ConfigNext ==
    \/ NewConfig
    \/ Set

SpecConfig == ConfigInit /\ [][ConfigNext]_vars


(***************************************************************************)
(* SnakeScreen (snake_game.py).  One step of _loop is one pass of its      *)
(* while loop, one step of handle_button one call.                         *)
(***************************************************************************)
\* create_snake_screen, line 254: the game is opened from the menu, for the
\* first time or after BACK.
Open ==
    /\ ~game.running
    /\ \E food \in RandEmptyCell(InitialSnake) :
         game' = NewGame(game.high_score, food)
    /\ UNCHANGED outsideSnake

Max(a, b) == IF a > b THEN a ELSE b

\* _end_game, lines 113-122.
EndGame(g) ==
    [g EXCEPT !.game_over = TRUE, !.high_score = Max(g.score, g.high_score)]

\* Faulty variant: the snake may run over itself.
HitsSelfNever(g, cell) == FALSE

\* Line 98: (nx, ny) in self.snake
HitsSelf(g, cell) == cell \in Cells(g.snake)

\* Line 93: the grid-bounds collision.
HitsWall(cell) ==
    cell[1] < 0 \/ cell[1] >= GRID_W \/ cell[2] < 0 \/ cell[2] >= GRID_H

\* _advance, lines 87-111, with food the cell _rand_empty_cell would return.
Advance(g, food) ==
    LET d == DIRS[g.dir_idx + 1]
        cell == <<g.snake[1][1] + d[1], g.snake[1][2] + d[2]>>
        moved == <<cell>> \o g.snake
    IN  IF HitsWall(cell) \/ HitsSelf(g, cell)
        THEN EndGame(g)
        ELSE IF cell = g.food
        THEN [g EXCEPT !.snake = moved, !.score = @ + 1,
                       !.tick_ms = Max(70, 180 - (g.score + 1) * 6),
                       !.food = food]
        ELSE [g EXCEPT !.snake = SubSeq(moved, 1, Len(moved) - 1)]

\* _loop, lines 126-130: one pass.
Tick ==
    /\ game.running
    /\ IF ~game.paused /\ ~game.game_over
       THEN LET d == DIRS[game.dir_idx + 1]
                cell == <<game.snake[1][1] + d[1], game.snake[1][2] + d[2]>>
            IN  \E food \in RandEmptyCell(<<cell>> \o game.snake) :
                   game' = Advance(game, food)
       ELSE UNCHANGED game
    /\ UNCHANGED outsideSnake

\* Faulty variant: a paused snake still turns.
MayTurnPaused(g) == ~g.game_over

\* Line 225: if not self.game_over and not self.paused
MayTurn(g) == ~g.game_over /\ ~g.paused

\* handle_button, lines 224-252.
Handle_button(btn) ==
    /\ game.running
    /\ LET turn == CASE btn = "NEXT" -> 1
                     [] btn = "PREV" -> 3
                     [] OTHER -> 0
           g == IF MayTurn(game)
                THEN [game EXCEPT !.dir_idx = (@ + turn) % 4]
                ELSE game
       IN  CASE btn = "SELECT" /\ game.game_over ->
                  \E food \in RandEmptyCell(InitialSnake) :
                     game' = NewGame(game.high_score, food)
             [] btn = "SELECT" /\ ~game.game_over ->
                  game' = [g EXCEPT !.paused = ~@]
             [] btn = "BACK" ->
                  game' = Closed(game.high_score)
             [] OTHER ->
                  game' = g
    /\ UNCHANGED outsideSnake

Buttons == {"NEXT", "PREV", "SELECT", "BACK"}

SnakeInit ==
    /\ ScannerIdle
    /\ ModulesIdle

SnakeNext ==
    \/ Open
    \/ Tick
    \/ \E btn \in Buttons : Handle_button(btn)

SpecSnake == SnakeInit /\ [][SnakeNext]_vars


(***************************************************************************)
(* Properties of NetworkManager.connect.                                   *)
(***************************************************************************)
ConnectDone == nmCall.pc = "done"

\* C31: NetworkManager.connect makes at most MAX_CONNECT_RETRIES connection
\* attempts and returns False when the last of them has failed; it returns
\* True only in the step in which the interface reported STAT_GOT_IP; and
\* the step in which the interface reports STAT_WRONG_PASSWORD ends the call
\* with False, with no further attempt.
C31_BoundedAttempts ==
    /\ [](/\ nmCall.attempts <= MAX_CONNECT_RETRIES
          /\ nm._connect_retries <= MAX_CONNECT_RETRIES
          /\ nmCall.result = "True" => "STAT_GOT_IP" \in nmCall.seen
          /\ (ConnectDone /\ "STAT_GOT_IP" \notin nmCall.seen)
                => nmCall.result = "False"
          /\ ConnectDone => nmCall.result \in {"True", "False"}
          /\ (ConnectDone /\ "STAT_WRONG_PASSWORD" \in nmCall.seen)
                => nmCall.result = "False")
    /\ [][/\ (nmCall'.result = "True" /\ nmCall.result # "True")
                => /\ "STAT_GOT_IP" \in nmCall'.seen
                   /\ "STAT_GOT_IP" \notin nmCall.seen
          /\ ("STAT_WRONG_PASSWORD" \in nmCall'.seen
                /\ "STAT_WRONG_PASSWORD" \notin nmCall.seen)
                => /\ nmCall'.pc = "done"
                   /\ nmCall'.result = "False"
                   /\ nmCall'.attempts = nmCall.attempts]_vars

C31_Witness ==
    /\ ConnectDone
    /\ nmCall.result = "False"
    /\ nmCall.attempts = MAX_CONNECT_RETRIES
    /\ nm._connect_retries = MAX_CONNECT_RETRIES
    /\ nmCall.seen = {"STAT_NO_AP_FOUND", "STAT_CONNECTING"}

\* The waits follow the attempts: one wait between two attempts, none after
\* the attempt that ended the call.
WaitsBetweenAttempts ==
    /\ Len(nmCall.waits) <= MAX_CONNECT_RETRIES - 1
    /\ nmCall.attempts > 0
          => Len(nmCall.waits) = IF nmCall.lastWait THEN nmCall.attempts
                                 ELSE nmCall.attempts - 1
    /\ ConnectDone => ~nmCall.lastWait

\* C32 as stated: in NetworkManager.connect the wait before the first retry
\* is RECONNECT_WAIT_BASE, every later wait is twice the wait before it, and
\* no wait follows the last allowed attempt.
C32_WaitsStartAtBase ==
    /\ WaitsBetweenAttempts
    /\ \A i \in 1..Len(nmCall.waits) :
          nmCall.waits[i] = IF i = 1 THEN RECONNECT_WAIT_BASE
                            ELSE 2 * nmCall.waits[i - 1]

\* A call of three attempts: the two waits are 1000 ms and 2000 ms.
C32_Witness ==
    /\ ConnectDone
    /\ nmCall.attempts = MAX_CONNECT_RETRIES
    /\ WaitsBetweenAttempts
    /\ nmCall.waits = <<2 * RECONNECT_WAIT_BASE, 4 * RECONNECT_WAIT_BASE>>

\* C33 as stated: whenever NetworkManager.connect has returned False, the
\* error code in _last_error, which status() reports, is not WIFI_OK.
C33_FalseHasErrorCode ==
    (ConnectDone /\ nmCall.result = "False") => status_error # WIFI_OK

\* Three attempts that timed out while the interface was still connecting:
\* connect returned False and status() reports WIFI_OK.
C33_Witness ==
    /\ ConnectDone
    /\ nmCall.result = "False"
    /\ nmCall.attempts = MAX_CONNECT_RETRIES
    /\ nmCall.seen = {"STAT_CONNECTING"}
    /\ status_error = WIFI_OK

C35_DefaultsNeverChange ==
    /\ DEFAULT_CONFIG = OriginalDefaults
    /\ \A i \in 1..Len(configs) :
         (configs[i].file = "missing" /\ ~configs[i].changed)
            => Reads(configs[i].config) = OriginalDefaults

\* A first Config has loaded a document with WiFi credentials; a second one,
\* made afterwards for a missing file, reads the credentials of the first.
C35_Witness ==
    /\ Len(configs) = 2
    /\ configs[1].file = "loaded"
    /\ ~configs[1].changed
    /\ configs[2].file = "missing"
    /\ ~configs[2].changed
    /\ Reads(configs[2].config).wifi.ssid = "home"
    /\ DEFAULT_CONFIG.wifi.ssid = "home"

(***************************************************************************)
(* Properties of the snake game.                                           *)
(***************************************************************************)
Restarts == game.game_over /\ ~game'.game_over

\* C36: NEXT turns the snake right and PREV left while the game is neither
\* paused nor over, and neither does anything otherwise; SELECT toggles
\* paused and nothing else while the game is not over, and after game over
\* starts a new game (score 0, the initial snake heading right, not over,
\* not paused); while the screen stays open and the game is paused or
\* over, no step but that restart, and so no pass of _loop, moves the snake
\* or changes the score.
C36_ButtonsAndPause ==
    [][ /\ (~game.paused /\ ~game.game_over /\ Handle_button("NEXT"))
            => game' = [game EXCEPT !.dir_idx = (@ + 1) % 4]
        /\ (~game.paused /\ ~game.game_over /\ Handle_button("PREV"))
            => game' = [game EXCEPT !.dir_idx = (@ + 3) % 4]
        /\ ((game.paused \/ game.game_over)
              /\ (Handle_button("NEXT") \/ Handle_button("PREV")))
            => game' = game
        /\ (game'.dir_idx # game.dir_idx /\ game.running /\ game'.running)
            => ((~game.paused /\ ~game.game_over) \/ Restarts)
        /\ (~game.game_over /\ Handle_button("SELECT"))
            => game' = [game EXCEPT !.paused = ~@]
        /\ (game.game_over /\ Handle_button("SELECT"))
            => /\ game'.score = 0
               /\ game'.snake = InitialSnake
               /\ game'.dir_idx = 0
               /\ ~game'.game_over
               /\ ~game'.paused
               /\ game'.running
        /\ ((game.paused \/ game.game_over) /\ Tick)
            => game' = game
        /\ (game.running /\ game'.running
              /\ (game.paused \/ game.game_over) /\ ~Restarts)
            => (game'.snake = game.snake /\ game'.score = game.score)
      ]_vars

\* A game that ended with one point was restarted; the new game was turned
\* right and then paused.
C36_Witness ==
    /\ game.running
    /\ game.paused
    /\ game.dir_idx = 1
    /\ game.score = 0
    /\ game.high_score = 1
    /\ game.snake = InitialSnake

\* C37: the cells of the snake are pairwise distinct and inside the grid,
\* and the snake is 4 + score cells long.
C37_SnakeWellFormed ==
    /\ \A i, j \in 1..Len(game.snake) :
         i # j => game.snake[i] # game.snake[j]
    /\ \A i \in 1..Len(game.snake) :
         /\ 0 <= game.snake[i][1] /\ game.snake[i][1] < GRID_W
         /\ 0 <= game.snake[i][2] /\ game.snake[i][2] < GRID_H
    /\ Len(game.snake) = 4 + game.score

\* The snake has eaten twice, has turned back along itself and is paused.
C37_Witness ==
    /\ game.running
    /\ game.paused
    /\ game.score = 2
    /\ Len(game.snake) = 6
    /\ game.dir_idx = 2
    /\ game.snake[1][2] # game.snake[6][2]

====
